---- MODULE Spec2Model ----
(***************************************************************************)
(* A model of the elaboration session of the Lean 3 front end             *)
(* (elaborator.cpp): the metavariable context, the three deferred         *)
(* worklists, the snapshot mechanism, overload resolution and the         *)
(* two-pass application elaborator.                                        *)
(*                                                                         *)
(* The session is one record, elab, whose fields carry the names of the   *)
(* members of class elaborator.  Every method of the class that changes   *)
(* the session is an operator from a session to a result                  *)
(* [st, exc, val]: the session after the call, the exception that left    *)
(* the call ("none", "elab" for elaborator_exception, "other" for any     *)
(* other lean::exception) and the returned term.                          *)
(***************************************************************************)
EXTENDS Integers, Sequences, FiniteSets, TLC

(***************************************************************************)
(* Bounds of the model.                                                    *)
(***************************************************************************)
MaxMvar    == 4   \* metavariable ids are 1..MaxMvar
MaxPending == 2   \* longest pending list built by the session actions
MaxMsgs    == 2   \* no new top-level operation once this many diagnostics

Ids == 1..MaxMvar

(* Val([r \in {v} |-> body]) is body with r bound to the value of v.        *)
Val(f) == f[CHOOSE x \in DOMAIN f : TRUE]

(***************************************************************************)
(* Terms are first-order: a head symbol and a list of argument terms.     *)
(* The metavariable with id m is the constant-like term whose head is    *)
(* MvName[m]; the variable bound by the k-th binder of a telescope is the *)
(* term whose head is BvName[k].                                          *)
(***************************************************************************)
MvName == <<"?1", "?2", "?3", "?4", "?5", "?6", "?7", "?8">>
BvName == <<"#1", "#2", "#3">>
MvHeads == { MvName[i] : i \in DOMAIN MvName }
BvHeads == { BvName[i] : i \in DOMAIN BvName }
T0(c)       == [c |-> c, args |-> <<>>]
T1(c, a)    == [c |-> c, args |-> <<a>>]
T2(c, a, b) == [c |-> c, args |-> <<a, b>>]
NoTerm      == T0("none")
MVar(m)     == [c |-> MvName[m], args |-> <<>>]
BVar(k)     == [c |-> BvName[k], args |-> <<>>]
is_metavar(t) == t.c \in MvHeads
is_bvar(t)    == t.c \in BvHeads
MvarId(t)     == CHOOSE i \in DOMAIN MvName : MvName[i] = t.c
BvarIdx(t)    == CHOOSE i \in DOMAIN BvName : BvName[i] = t.c

RECURSIVE Mvars(_)
Mvars(t) ==
    IF is_metavar(t) THEN {MvarId(t)}
    ELSE IF is_bvar(t) THEN {}
    ELSE UNION { Mvars(t.args[i]) : i \in DOMAIN t.args }

has_expr_metavar(t) == Mvars(t) # {}

RECURSIVE instantiate(_, _)
instantiate(t, subst) ==
    IF is_metavar(t) THEN t
    ELSE IF is_bvar(t)
    THEN IF BvarIdx(t) \in DOMAIN subst THEN subst[BvarIdx(t)] ELSE t
    ELSE [c |-> t.c, args |-> [i \in DOMAIN t.args |-> instantiate(t.args[i], subst)]]

(***************************************************************************)
(* Metavariable context: declared types and assignments by id.            *)
(***************************************************************************)
EmptyMctx == [decl |-> [i \in Ids |-> NoTerm], asg |-> [i \in Ids |-> NoTerm]]
IsDeclared(mctx, m)  == mctx.decl[m] # NoTerm
is_assigned(mctx, m) == mctx.asg[m] # NoTerm
FreeIds(mctx)        == { i \in Ids : ~IsDeclared(mctx, i) }
mctx_assign(mctx, m, v) == [mctx EXCEPT !.asg[m] = v]

mk_metavar_decl(mctx, ty) ==
    Val([m \in {CHOOSE i \in FreeIds(mctx) : \A j \in FreeIds(mctx) : i <= j} |->
        [mctx |-> [mctx EXCEPT !.decl[m] = ty], m |-> m]])

RECURSIVE InstTerm(_, _)
InstTerm(mctx, t) ==
    IF is_metavar(t)
    THEN IF is_assigned(mctx, MvarId(t))
         THEN InstTerm(mctx, mctx.asg[MvarId(t)])
         ELSE t
    ELSE IF is_bvar(t) THEN t
    ELSE [c |-> t.c, args |-> [i \in DOMAIN t.args |-> InstTerm(mctx, t.args[i])]]

(***************************************************************************)
(* The environment the session elaborates in.  A function declaration is  *)
(* a telescope of binders and a result type; a binder has its kind bi,    *)
(* its domain d (which may mention earlier binders as #k) and, for an     *)
(* optional or auto parameter, the default value or the name of the       *)
(* tactic declaration.  strategy is the elaborator_strategy attribute.    *)
(***************************************************************************)
Binder(bi, d)       == [bi |-> bi, d |-> d, param |-> "none", tac |-> "none"]
AutoBinder(d, tac)  == [bi |-> "explicit", d |-> d, param |-> "auto", tac |-> tac]
FnNames == {"f_nat", "f_bool", "f_int", "id", "one", "g_auto", "a_auto",
            "h_inst", "p_dep", "k_inst"}
(* Every function of the catalogue has one universe parameter and the     *)
(* default strategy (WithExpectedType).                                   *)
NumUnivParams(name) == 1
get_elaborator_strategy(name) == "WithExpectedType"

FnDecl(name) ==
    CASE name = "f_nat"  -> [tele |-> << Binder("explicit", T0("nat")) >>,
                             res  |-> T0("nat")]
      [] name = "f_bool" -> [tele |-> << Binder("explicit", T0("bool")) >>,
                             res  |-> T0("bool")]
      [] name = "f_int"  -> [tele |-> << Binder("explicit", T0("int")) >>,
                             res  |-> T0("int")]
      [] name = "id"     -> [tele |-> << Binder("implicit", T0("Type")),
                                         Binder("explicit", BVar(1)) >>,
                             res  |-> BVar(1)]
      [] name = "one"    -> [tele |-> << Binder("implicit", T0("Type")),
                                         Binder("inst_implicit", T1("has_one", BVar(1))) >>,
                             res  |-> BVar(1)]
      [] name = "g_auto" -> [tele |-> << Binder("explicit", T0("nat")),
                                         AutoBinder(T0("unit"), "tac_d") >>,
                             res  |-> T0("nat")]
      [] name = "a_auto" -> [tele |-> << Binder("explicit", T0("nat")),
                                         AutoBinder(T0("unit"), "tac_a") >>,
                             res  |-> T0("nat")]
      [] name = "p_dep"  -> [tele |-> << Binder("explicit", T0("nat")) >>,
                             res  |-> T1("vec", BVar(1))]
      [] name = "h_inst" -> [tele |-> << Binder("implicit", T0("Type")),
                                         Binder("inst_implicit", T1("has_one", BVar(1))),
                                         Binder("explicit", BVar(1)) >>,
                             res  |-> BVar(1)]
      [] name = "k_inst" -> [tele |-> << Binder("implicit", T0("Type")),
                                         Binder("inst_implicit", T1("has_one", BVar(1))),
                                         Binder("explicit", BVar(1)),
                                         Binder("inst_implicit", T1("has_add", BVar(1))) >>,
                             res  |-> T0("nat")]

(* Declarations of the initial environment that auto parameters name; a   *)
(* tactic may add further ones (m_env holds the added names).             *)
BaseDecls == {"tac_a"}

(* Classes: number of parameters and the positions of the out_params.     *)
ClassArity(c) == IF c \in {"outc", "has_coe_t"} THEN 2 ELSE 1
OutParams(c)  == IF c = "outc" THEN {2} ELSE {}
is_class_out_param(c, i) == i \in OutParams(c)

(* The instances of the environment: the answer of class-instance search  *)
(* for an instantiated class application, with the values it gives the    *)
(* out_params.                                                             *)
InstanceOuts(C) ==
    CASE C.c \in {"has_one", "has_zero", "has_add"} ->
             IF C.args[1] \in {T0("nat"), T0("int")} THEN <<TRUE, <<>> >>
             ELSE <<FALSE, <<>> >>
      [] C.c = "dep"  -> <<TRUE, <<>> >>
      [] C.c = "outc" -> IF C.args[1] = T0("nat") THEN <<TRUE, << T0("bool") >> >>
                         ELSE <<FALSE, <<>> >>
      [] C.c = "has_coe_t" ->
             IF C.args = << T0("nat"), T0("int") >> THEN <<TRUE, <<>> >>
             ELSE <<FALSE, <<>> >>
      [] C.c = "decidable" ->
             IF C.args[1] = T0("p_undec") THEN <<FALSE, <<>> >>
             ELSE <<TRUE, <<>> >>
      [] OTHER -> <<FALSE, <<>> >>

(* The type of the application of a declared function to new_args: the   *)
(* result type when every binder is instantiated, else the remaining Pi   *)
(* type (identified by the partial application).                          *)
ResultType(name, new_args) ==
    IF Len(new_args) >= Len(FnDecl(name).tele)
    THEN instantiate(FnDecl(name).res, new_args)
    ELSE T1("Pi", [c |-> name, args |-> new_args])
is_pi(t) == t.c = "Pi"

(***************************************************************************)
(* The checker.  Types of the constants of the environment, and type      *)
(* inference on terms: ?m has its declared type; (sorry T), (inst C) and  *)
(* the numeral constructors (zero A ..), (one_ A ..), (bit0 A ..),        *)
(* (bit1 A ..) carry their type; (coe A B x) has type B; an application   *)
(* of a declared function has the result type of its telescope.           *)
(***************************************************************************)
ConstType(c) ==
    CASE c \in {"nat", "bool", "int", "unit", "Prop", "list"} -> T0("Type")
      [] c \in {"tt", "ff"}   -> T0("bool")
      [] c \in {"n0", "n1", "add", "double", "inc", "succ"} -> T0("nat")
      [] c = "i0"             -> T0("int")
      [] c = "star"           -> T0("unit")
      [] c \in {"p0", "p_undec"} -> T0("Prop")
      [] c = "Type"           -> T0("Type1")
      [] OTHER                -> T0("Type")

infer(mctx, t) ==
    CASE is_metavar(t)                        -> mctx.decl[MvarId(t)]
      [] t.c \in {"sorry", "inst", "placeholder", "zero", "one_", "bit0", "bit1"}
                                              -> t.args[1]
      [] t.c = "coe"                          -> t.args[2]
      [] t.c = "to_bool"                      -> T0("bool")
      [] t.c \in FnNames                      -> ResultType(t.c, t.args)
      [] OTHER                                -> ConstType(t.c)

(***************************************************************************)
(* Unification: first-order, with the occurs check; an unassigned         *)
(* metavariable is assigned a term whose type unifies with its declared   *)
(* type, and an existing assignment is never replaced.  A failed          *)
(* unification leaves the context as it was.                              *)
(***************************************************************************)
RECURSIVE Unify(_, _, _)
RECURSIVE UnifyArgs(_, _, _, _)
RECURSIVE HeadInst(_, _)
HeadInst(mctx, t) ==
    IF is_metavar(t) /\ is_assigned(mctx, MvarId(t))
    THEN HeadInst(mctx, mctx.asg[MvarId(t)])
    ELSE t

UnifyAssign(mctx, m, b) ==
    IF m \in Mvars(InstTerm(mctx, b)) THEN [ok |-> FALSE, mctx |-> mctx]
    ELSE Val([r \in {Unify(mctx, mctx.decl[m], infer(mctx, b))} |->
             IF r.ok THEN [ok |-> TRUE, mctx |-> mctx_assign(r.mctx, m, b)]
             ELSE [ok |-> FALSE, mctx |-> mctx]])

Unify(mctx, t1, t2) ==
    Val([a \in {HeadInst(mctx, t1)} |->
    Val([b \in {HeadInst(mctx, t2)} |->
        IF a = b THEN [ok |-> TRUE, mctx |-> mctx]
        ELSE IF is_metavar(a) THEN UnifyAssign(mctx, MvarId(a), b)
        ELSE IF is_metavar(b) THEN UnifyAssign(mctx, MvarId(b), a)
        ELSE IF a.c = b.c /\ Len(a.args) = Len(b.args)
        THEN UnifyArgs(mctx, a.args, b.args, 1)
        ELSE [ok |-> FALSE, mctx |-> mctx]])])

UnifyArgs(mctx, as, bs, i) ==
    IF i > Len(as) THEN [ok |-> TRUE, mctx |-> mctx]
    ELSE Val([r \in {Unify(mctx, as[i], bs[i])} |->
             IF r.ok THEN UnifyArgs(r.mctx, as, bs, i + 1)
             ELSE [ok |-> FALSE, mctx |-> mctx]])

ctx_is_def_eq(mctx, t1, t2) ==
    Val([r \in {Unify(mctx, t1, t2)} |->
        IF r.ok THEN r ELSE [ok |-> FALSE, mctx |-> mctx]])

(***************************************************************************)
(* The session (class elaborator).  reported counts the diagnostics sent  *)
(* to the message stream; pip says whether a position-information         *)
(* provider is installed; trace is the list of worklist events of the     *)
(* operation in progress (an event names what was done, the metavariable  *)
(* it was done for and, for a class-instance search, whether the type     *)
(* searched for was ready).                                               *)
(***************************************************************************)
NewElab(recover, pip, in_pattern, in_quote) ==
    [mctx                  |-> EmptyMctx,
     m_info                |-> 0,
     m_instances           |-> <<>>,
     m_numeral_types       |-> <<>>,
     m_tactics             |-> <<>>,
     m_inaccessible_stack  |-> <<>>,
     m_to_check_sorts      |-> 0,
     m_has_errors          |-> FALSE,
     m_env                 |-> BaseDecls,
     m_recover_from_errors |-> recover,
     m_in_pattern          |-> in_pattern,
     m_in_quote            |-> in_quote,
     m_coercions           |-> TRUE,
     pip                   |-> pip,
     reported              |-> 0,
     trace                 |-> <<>>]

cons(x, l) == <<x>> \o l

Ok(e, v)    == [st |-> e, exc |-> "none", val |-> v]
Throw(e, k) == [st |-> e, exc |-> k, val |-> NoTerm]
Event(ev, m, ok) == [ev |-> ev, m |-> m, ok |-> ok]
Emit(e, ev, m, ok) == [e EXCEPT !.trace = Append(@, Event(ev, m, ok))]

try_report(e) ==
    IF ~e.m_recover_from_errors THEN [reported |-> FALSE, st |-> e]
    ELSE IF ~e.pip THEN [reported |-> FALSE, st |-> e]
    ELSE [reported |-> TRUE,
          st |-> [e EXCEPT !.reported = @ + 1, !.m_has_errors = TRUE]]

report_or_throw(e) ==
    Val([r \in {try_report(e)} |->
        IF r.reported THEN Ok(r.st, NoTerm) ELSE Throw(r.st, "elab")])

mk_metavar(e, ty) ==
    Val([d \in {mk_metavar_decl(e.mctx, ty)} |->
        Ok([e EXCEPT !.mctx = d.mctx], MVar(d.m))])

mk_type_metavar(e) == mk_metavar(e, T0("Type"))

(* mk_sorry(expected_type, ref): a placeholder of the given type, or of a *)
(* fresh type metavariable when none is given (type = NoTerm).            *)
mk_sorry(e, ty) ==
    IF ty # NoTerm THEN Ok(e, T1("sorry", ty))
    ELSE Val([r \in {mk_type_metavar(e)} |->
             Ok(r.st, T1("sorry", r.val))])

recoverable_error(e, ty) ==
    Val([r \in {report_or_throw(e)} |->
        IF r.exc = "none" THEN mk_sorry(r.st, ty) ELSE r])

(* m_ctx.is_def_eq: the checker of the type context, which answers or     *)
(* raises an exception; it raises on the comparisons that exceed its       *)
(* limits, here the ones with the constant deep on either side.            *)
CheckerRaises(t1, t2) == t1.c = "deep" \/ t2.c = "deep"

m_ctx_is_def_eq(e, t1, t2) ==
    IF CheckerRaises(t1, t2)
    THEN [ok |-> FALSE, st |-> e, exc |-> "exception"]
    ELSE Val([r \in {ctx_is_def_eq(e.mctx, t1, t2)} |->
             [ok |-> r.ok, st |-> [e EXCEPT !.mctx = r.mctx], exc |-> "none"]])

is_def_eq(e, t1, t2) ==
    Val([r \in {m_ctx_is_def_eq(e, t1, t2)} |->
        [ok |-> r.exc = "none" /\ r.ok, st |-> r.st]])

(* try_is_def_eq: is_def_eq with recovery switched off for its duration.   *)
try_is_def_eq(e, t1, t2) ==
    Val([r \in {is_def_eq([e EXCEPT !.m_recover_from_errors = FALSE], t1, t2)} |->
        [ok |-> r.ok,
         st |-> [r.st EXCEPT !.m_recover_from_errors = e.m_recover_from_errors]]])

(* dec_level: the predecessor of a universe level; a level that is not a   *)
(* successor syntactically must unify with the successor of a fresh level  *)
(* metavariable.  Levels are terms: succ l, zero, a parameter or deep.     *)
dec_level(e, l) ==
    IF l.c = "succ" THEN Ok(e, l.args[1])
    ELSE Val([q \in {IF l.c = "zero"
                     THEN [ok |-> FALSE, st |-> e, exc |-> "none"]
                     ELSE IF CheckerRaises(T1("succ", T0("?u")), l)
                     THEN [ok |-> FALSE, st |-> e, exc |-> "exception"]
                     ELSE [ok |-> TRUE, st |-> e, exc |-> "none"]} |->
             IF q.exc # "none" THEN Throw(q.st, q.exc)
             ELSE IF ~q.ok THEN Throw(q.st, "elab")
             ELSE Ok(q.st, T0("?u"))])

instantiate_mvars(e, t) == InstTerm(e.mctx, t)
infer_type(e, t)        == infer(e.mctx, t)

(***************************************************************************)
(* Type-class instances.                                                   *)
(***************************************************************************)
ready_to_synthesize(inst_type) ==
    IF ~has_expr_metavar(inst_type) THEN TRUE
    ELSE IF is_metavar(inst_type) THEN FALSE
    ELSE \A i \in DOMAIN inst_type.args :
            /\ i <= ClassArity(inst_type.c)
            /\ ~(has_expr_metavar(inst_type.args[i])
                 /\ ~is_class_out_param(inst_type.c, i))

(* The external search m_ctx.mk_class_instance_at: when the environment   *)
(* has an instance it returns it and fixes the out_params.                *)
RECURSIVE UnifyOuts(_, _, _, _)
UnifyOuts(mctx, C, outs, k) ==
    IF k > Len(outs) THEN [ok |-> TRUE, mctx |-> mctx]
    ELSE Val([pos \in {CHOOSE i \in OutParams(C.c) :
                       Cardinality({ j \in OutParams(C.c) : j < i }) = k - 1} |->
         Val([r \in {ctx_is_def_eq(mctx, C.args[pos], outs[k])} |->
             IF r.ok THEN UnifyOuts(r.mctx, C, outs, k + 1)
             ELSE [ok |-> FALSE, mctx |-> mctx]])])

mk_class_instance_at(mctx, C) ==
    Val([Ci \in {InstTerm(mctx, C)} |->
    Val([row \in {InstanceOuts(Ci)} |->
    Val([u \in {UnifyOuts(mctx, Ci, row[2], 1)} |->
        IF row[1] /\ u.ok
        THEN [found |-> TRUE, mctx |-> u.mctx,
              inst |-> T1("inst", InstTerm(u.mctx, Ci))]
        ELSE [found |-> FALSE, mctx |-> mctx, inst |-> NoTerm]])])])

mk_instance_core(e, C, ref) ==
    Val([e1 \in {Emit(e, "search", ref, ready_to_synthesize(instantiate_mvars(e, C)))} |->
    Val([r \in {mk_class_instance_at(e1.mctx, C)} |->
        IF ~r.found
        THEN recoverable_error(e1, C)
        ELSE Ok([e1 EXCEPT !.mctx = r.mctx], r.inst)])])

(* mk_instance without the readiness test: it always searches.          *)
mk_instance_eager(e, C) ==
    IF e.m_in_pattern /\ e.m_in_quote
    THEN Ok(Emit(e, "ask", 0, ready_to_synthesize(C)), T1("placeholder", C))
    ELSE mk_instance_core(Emit(e, "ask", 0, ready_to_synthesize(C)), C, 0)

mk_instance(e, C) ==
    IF e.m_in_pattern /\ e.m_in_quote
    THEN Ok(Emit(e, "ask", 0, ready_to_synthesize(C)), T1("placeholder", C))
    ELSE IF ~ready_to_synthesize(C)
    THEN Val([r \in {mk_metavar(Emit(e, "ask", 0, FALSE), C)} |->
             Ok(Emit([r.st EXCEPT !.m_instances = cons(MvarId(r.val), @)],
                     "q_inst", MvarId(r.val), FALSE), r.val)])
    ELSE mk_instance_core(Emit(e, "ask", 0, TRUE), C, 0)

synthesize_type_class_instance_core(e, mvar, inferred_inst, inst_type) ==
    IF ~ready_to_synthesize(inst_type)
    THEN [st |-> Emit(e, "core", mvar, FALSE), exc |-> "none", val |-> NoTerm,
          res |-> FALSE]
    ELSE Val([r \in {mk_instance_core(Emit(e, "core", mvar, TRUE), inst_type, mvar)} |->
             IF r.exc # "none"
             THEN [st |-> r.st, exc |-> r.exc, val |-> NoTerm, res |-> FALSE]
             ELSE Val([q \in {is_def_eq(r.st, inferred_inst, r.val)} |->
                      IF ~q.ok
                      THEN [st |-> Emit(q.st, "mismatch", mvar, FALSE),
                            exc |-> "elab", val |-> NoTerm, res |-> FALSE]
                      ELSE [st |-> q.st, exc |-> "none", val |-> NoTerm,
                            res |-> TRUE]])])

try_synthesize_type_class_instance(e, mvar) ==
    Val([inst \in {instantiate_mvars(e, MVar(mvar))} |->
    Val([inst_type \in {instantiate_mvars(e, infer_type(e, inst))} |->
        synthesize_type_class_instance_core(e, mvar, inst, inst_type)])])

(* The scan of synthesize_type_class_instances_step: the instances it     *)
(* keeps and the (mvar, inst, inst_type) triples it is going to process.  *)
ScanType(e, mvar) ==
    instantiate_mvars(e, infer_type(e, instantiate_mvars(e, MVar(mvar))))
RECURSIVE ScanSelect(_, _, _)
ScanSelect(e, ms, ready) ==
    IF ms = <<>> THEN <<>>
    ELSE (IF ready_to_synthesize(ScanType(e, ms[1])) = ready
          THEN <<ms[1]>> ELSE <<>>) \o ScanSelect(e, Tail(ms), ready)
ScanKeep(e) == ScanSelect(e, e.m_instances, FALSE)
ScanProcess(e) ==
    Val([rdy \in {ScanSelect(e, e.m_instances, TRUE)} |->
        [i \in DOMAIN rdy |->
            [mvar |-> rdy[i], inst |-> instantiate_mvars(e, MVar(rdy[i])),
             inst_type |-> ScanType(e, rdy[i])]]])

RECURSIVE ProcessInstances(_, _, _)
ProcessInstances(e, to_process, i) ==
    IF i > Len(to_process) THEN Ok(e, NoTerm)
    ELSE Val([c \in {to_process[i]} |->
         Val([r \in {synthesize_type_class_instance_core(e, c.mvar, c.inst,
                                                      c.inst_type)} |->
             IF r.exc # "none" THEN Throw(r.st, r.exc)
             ELSE ProcessInstances(r.st, to_process, i + 1)])])

(* changed: the step replaced m_instances by a new list, so the caller's  *)
(* is_eqp(old_instances, m_instances) is false.                           *)
(* The step whose caller compares m_instances with itself: the loop      *)
(* takes every scan for the last one.                                    *)
synthesize_type_class_instances_step_once(e) ==
    Val([to_keep \in {ScanKeep(e)} |->
    Val([to_process \in {ScanProcess(e)} |->
        IF to_process = <<>>
        THEN [st |-> e, exc |-> "none", changed |-> FALSE]
        ELSE Val([r \in {ProcessInstances(e, to_process, 1)} |->
                 IF r.exc # "none"
                 THEN [st |-> r.st, exc |-> r.exc, changed |-> FALSE]
                 ELSE [st |-> [r.st EXCEPT !.m_instances = to_keep],
                       exc |-> "none", changed |-> FALSE]])])])

synthesize_type_class_instances_step(e) ==
    Val([to_keep \in {ScanKeep(e)} |->
    Val([to_process \in {ScanProcess(e)} |->
        IF to_process = <<>>
        THEN [st |-> e, exc |-> "none", changed |-> FALSE]
        ELSE Val([r \in {ProcessInstances(e, to_process, 1)} |->
                 IF r.exc # "none"
                 THEN [st |-> r.st, exc |-> r.exc, changed |-> FALSE]
                 ELSE [st |-> [r.st EXCEPT !.m_instances = to_keep],
                       exc |-> "none", changed |-> TRUE]])])])

RECURSIVE synthesize_type_class_instances(_)
synthesize_type_class_instances(e) ==
    Val([r \in {synthesize_type_class_instances_step(e)} |->
        IF r.exc # "none" THEN Throw(r.st, r.exc)
        ELSE IF ~r.changed THEN Ok(r.st, NoTerm)
        ELSE synthesize_type_class_instances(r.st)])

(***************************************************************************)
(* Numeral types.                                                          *)
(***************************************************************************)
get_default_numeral_type == T0("nat")

assign_mvar(e, A, v) == is_def_eq(e, MVar(A), v)

(* The loop without the report: a failed default is passed over.          *)
RECURSIVE NumeralLoopSilent(_, _, _)
NumeralLoopSilent(e, types, i) ==
    IF i > Len(types) THEN Ok(e, NoTerm)
    ELSE Val([A \in {types[i]} |->
         Val([e1 \in {Emit(e, "num", A, TRUE)} |->
             IF is_metavar(instantiate_mvars(e1, MVar(A)))
             THEN Val([q \in {assign_mvar(e1, A, get_default_numeral_type)} |->
                      NumeralLoopSilent(q.st, types, i + 1)])
             ELSE NumeralLoopSilent(e1, types, i + 1)])])

RECURSIVE NumeralLoop(_, _, _)
NumeralLoop(e, types, i) ==
    IF i > Len(types) THEN Ok(e, NoTerm)
    ELSE Val([A \in {types[i]} |->
         Val([e1 \in {Emit(e, "num", A, TRUE)} |->
             IF is_metavar(instantiate_mvars(e1, MVar(A)))
             THEN Val([q \in {assign_mvar(e1, A, get_default_numeral_type)} |->
                      IF q.ok THEN NumeralLoop(q.st, types, i + 1)
                      ELSE Val([r \in {report_or_throw(q.st)} |->
                               IF r.exc # "none" THEN r
                               ELSE NumeralLoop(r.st, types, i + 1)])])
             ELSE NumeralLoop(e1, types, i + 1)])])

synthesize_numeral_types(e) ==
    Val([r \in {NumeralLoop(e, e.m_numeral_types, 1)} |->
        IF r.exc # "none" THEN r
        ELSE Ok(Emit([r.st EXCEPT !.m_numeral_types = <<>>], "clr_num", 0, TRUE),
                NoTerm)])

(***************************************************************************)
(* Tactic blocks.  A tactic term is abstracted to what the tactic engine  *)
(* answers for it: res is "ok" (success with result val, which adds the   *)
(* declarations adds to the environment), "fail" (a failure result) or    *)
(* "throw" (the evaluation raises).                                       *)
(***************************************************************************)
Tac(res, val, adds) == [res |-> res, val |-> val, adds |-> adds]

(* invoke_tactic whose failure branch forgets the error flag.             *)
invoke_tactic_unflagged(e0, mvar, tactic) ==
    Val([e \in {Emit(e0, "tac", mvar, TRUE)} |->
    Val([type \in {e.mctx.decl[mvar]} |->
        IF tactic.res = "ok"
        THEN Val([val0 \in {instantiate_mvars(e, tactic.val)} |->
             Val([r \in {IF has_expr_metavar(val0)
                         THEN recoverable_error(e, type)
                         ELSE Ok(e, val0)} |->
                 IF r.exc # "none"
                 THEN Throw(r.st, r.exc)
                 ELSE Ok([r.st EXCEPT
                            !.mctx  = mctx_assign(r.st.mctx, mvar, r.val),
                            !.m_env = @ \cup tactic.adds], NoTerm)])])
        ELSE IF tactic.res = "fail"
        THEN Ok([e EXCEPT !.mctx = mctx_assign(e.mctx, mvar, T1("sorry", type))],
                NoTerm)
        ELSE Val([t \in {try_report(e)} |->
                 IF t.reported
                 THEN Ok([t.st EXCEPT !.mctx =
                             mctx_assign(t.st.mctx, mvar, T1("sorry", type))],
                         NoTerm)
                 ELSE Throw(t.st, "elab")])])])

(* invoke_tactic whose replacement for a rejected result ignores the      *)
(* declared type of the metavariable.                                     *)
invoke_tactic_untyped(e0, mvar, tactic) ==
    Val([e \in {Emit(e0, "tac", mvar, TRUE)} |->
    Val([type \in {e.mctx.decl[mvar]} |->
        IF tactic.res = "ok"
        THEN Val([val0 \in {instantiate_mvars(e, tactic.val)} |->
             Val([r \in {IF has_expr_metavar(val0)
                         THEN recoverable_error(e, T0("nat"))
                         ELSE Ok(e, val0)} |->
                 IF r.exc # "none"
                 THEN Throw(r.st, r.exc)
                 ELSE Ok([r.st EXCEPT
                            !.mctx  = mctx_assign(r.st.mctx, mvar, r.val),
                            !.m_env = @ \cup tactic.adds], NoTerm)])])
        ELSE IF tactic.res = "fail"
        THEN Ok([e EXCEPT !.mctx = mctx_assign(e.mctx, mvar, T1("sorry", type)),
                          !.m_has_errors = TRUE], NoTerm)
        ELSE Val([t \in {try_report(e)} |->
                 IF t.reported
                 THEN Ok([t.st EXCEPT !.mctx =
                             mctx_assign(t.st.mctx, mvar, T1("sorry", type))],
                         NoTerm)
                 ELSE Throw(t.st, "elab")])])])

invoke_tactic(e0, mvar, tactic) ==
    Val([e \in {Emit(e0, "tac", mvar, TRUE)} |->
    Val([type \in {e.mctx.decl[mvar]} |->
        IF tactic.res = "ok"
        THEN Val([val0 \in {instantiate_mvars(e, tactic.val)} |->
             Val([r \in {IF has_expr_metavar(val0)
                         THEN recoverable_error(e, type)
                         ELSE Ok(e, val0)} |->
                 IF r.exc # "none"
                 THEN (* the handler's try_report declines as well *)
                      Throw(r.st, r.exc)
                 ELSE Ok([r.st EXCEPT
                            !.mctx  = mctx_assign(r.st.mctx, mvar, r.val),
                            !.m_env = @ \cup tactic.adds], NoTerm)])])
        ELSE IF tactic.res = "fail"
        THEN Ok([e EXCEPT !.mctx = mctx_assign(e.mctx, mvar, T1("sorry", type)),
                          !.m_has_errors = TRUE], NoTerm)
        ELSE Val([t \in {try_report(e)} |->
                 IF t.reported
                 THEN Ok([t.st EXCEPT !.mctx =
                             mctx_assign(t.st.mctx, mvar, T1("sorry", type))],
                         NoTerm)
                 ELSE Throw(t.st, "elab")])])])

RECURSIVE TacticLoop(_, _, _)
TacticLoop(e, to_process, i) ==
    IF i > Len(to_process) THEN Ok(e, NoTerm)
    ELSE Val([r \in {invoke_tactic(e, to_process[i].mvar, to_process[i].tac)} |->
             IF r.exc # "none" THEN r
             ELSE TacticLoop(r.st, to_process, i + 1)])

synthesize_using_tactics(e) ==
    TacticLoop(Emit([e EXCEPT !.m_tactics = <<>>], "clr_tac", 0, TRUE),
               e.m_tactics, 1)

synthesize_no_tactics(e) ==
    Val([r1 \in {synthesize_numeral_types(e)} |->
        IF r1.exc # "none" THEN r1
        ELSE synthesize_type_class_instances(r1.st)])

synthesize(e) ==
    Val([r1 \in {synthesize_no_tactics(e)} |->
        IF r1.exc # "none" THEN r1
        ELSE synthesize_using_tactics(r1.st)])

(***************************************************************************)
(* Snapshots.                                                              *)
(***************************************************************************)
snapshot(e) ==
    [m_saved_mctx               |-> e.mctx,
     m_saved_info               |-> e.m_info,
     m_saved_instances          |-> e.m_instances,
     m_saved_numeral_types      |-> e.m_numeral_types,
     m_saved_tactics            |-> e.m_tactics,
     m_saved_inaccessible_stack |-> e.m_inaccessible_stack]

(* restore that leaves the pending tactic blocks as they are.             *)
restore_without_tactics(S, e) ==
    [e EXCEPT !.mctx                 = S.m_saved_mctx,
              !.m_info               = S.m_saved_info,
              !.m_instances          = S.m_saved_instances,
              !.m_numeral_types      = S.m_saved_numeral_types,
              !.m_inaccessible_stack = S.m_saved_inaccessible_stack]

restore(S, e) ==
    [e EXCEPT !.mctx                 = S.m_saved_mctx,
              !.m_info               = S.m_saved_info,
              !.m_instances          = S.m_saved_instances,
              !.m_numeral_types      = S.m_saved_numeral_types,
              !.m_tactics            = S.m_saved_tactics,
              !.m_inaccessible_stack = S.m_saved_inaccessible_stack]

(***************************************************************************)
(* Coercions.  An optional result is [st, some, val].                     *)
(***************************************************************************)
Some(e, v) == [st |-> e, some |-> TRUE, val |-> v, exc |-> "none"]
None(e)    == [st |-> e, some |-> FALSE, val |-> NoTerm, exc |-> "none"]
Raise(e, k) == [st |-> e, some |-> FALSE, val |-> NoTerm, exc |-> k]

is_app(t)  == Len(t.args) > 0
app_fn(t)  == [c |-> t.c, args |-> SubSeq(t.args, 1, Len(t.args) - 1)]
app_arg(t) == t.args[Len(t.args)]
is_monad(t) == t \in {T0("tactic"), T0("solver")}

mk_Prop_to_bool_coercion(e, x) ==
    Val([r \in {mk_instance(e, T1("decidable", x))} |->
        IF r.exc # "none" THEN Raise(r.st, r.exc)
        ELSE Some(r.st, T2("to_bool", x, r.val))])

mk_coercion_core(e, x, e_type, type) ==
    Val([q \in {IF e_type = T0("Prop")
                THEN m_ctx_is_def_eq(e, type, T0("bool"))
                ELSE [ok |-> FALSE, st |-> e, exc |-> "none"]} |->
        IF q.exc # "none" THEN Raise(q.st, q.exc)
        ELSE IF q.ok
        THEN mk_Prop_to_bool_coercion(q.st, x)
        ELSE IF ~has_expr_metavar(e_type) /\ ~has_expr_metavar(type)
        THEN Val([r \in {mk_class_instance_at(e.mctx, T2("has_coe_t", e_type, type))} |->
                 IF ~r.found THEN None(Emit(e, "coe_search", 0, FALSE))
                 ELSE Some(Emit(e, "coe_search", 0, TRUE),
                           [c |-> "coe", args |-> <<e_type, type, x>>])])
        ELSE None(e)])

try_monad_coercion(e, x, e_type, type) ==
    IF \/ (has_expr_metavar(e_type) /\ has_expr_metavar(type))
       \/ (~has_expr_metavar(e_type) /\ ~has_expr_metavar(type))
       \/ ~is_app(e_type)
       \/ ~is_app(type)
       \/ has_expr_metavar(app_fn(type))
       \/ has_expr_metavar(app_fn(e_type))
       \/ (~is_metavar(app_arg(e_type)) /\ ~is_metavar(app_arg(type)))
       \/ ~is_monad(app_fn(e_type))
       \/ ~is_monad(app_fn(type))
    THEN None(e)
    ELSE Val([q \in {m_ctx_is_def_eq(e, app_arg(e_type), app_arg(type))} |->
             IF q.exc # "none" THEN Raise(q.st, q.exc)
             ELSE IF ~q.ok THEN None(q.st)
             ELSE mk_coercion_core(q.st, x, e_type, instantiate_mvars(q.st, type))])

(* mk_coercion without the test of the coercions option.                  *)
mk_coercion_always(e, x, e_type0, type0) ==
    Val([e_type \in {instantiate_mvars(e, e_type0)} |->
    Val([type \in {instantiate_mvars(e, type0)} |->
        IF ~has_expr_metavar(e_type) /\ ~has_expr_metavar(type)
        THEN mk_coercion_core(e, x, e_type, type)
        ELSE try_monad_coercion(e, x, e_type, type)])])

mk_coercion(e, x, e_type0, type0) ==
    IF ~e.m_coercions THEN None(e)
    ELSE Val([e_type \in {instantiate_mvars(e, e_type0)} |->
         Val([type \in {instantiate_mvars(e, type0)} |->
             IF ~has_expr_metavar(e_type) /\ ~has_expr_metavar(type)
             THEN mk_coercion_core(e, x, e_type, type)
             ELSE try_monad_coercion(e, x, e_type, type)])])

(* ensure_has_type that goes to the coercions without the test of the    *)
(* two types.                                                             *)
ensure_has_type_coercing(e, x, e_type, type) ==
    mk_coercion(e, x, e_type, type)

ensure_has_type(e, x, e_type, type) ==
    Val([q \in {is_def_eq(e, e_type, type)} |->
        IF q.ok THEN Some(q.st, x)
        ELSE mk_coercion(q.st, x, e_type, type)])

(***************************************************************************)
(* Surface terms (the parser's output), as far as the session actions     *)
(* need them: a constant, a numeral, a tactic block, a placeholder, a     *)
(* sort with a universe placeholder, an inaccessible-pattern annotation,  *)
(* an as-is (already elaborated) term, and an application whose head is   *)
(* a constant or a choice between constants.  A head is a constant name   *)
(* with the number of universe levels written after it.                   *)
(***************************************************************************)
SNum(v)         == [k |-> "num", v |-> v]
SBy(tac)        == [k |-> "by", tac |-> tac]
SHole           == [k |-> "placeholder"]
SSort           == [k |-> "sort"]
SInacc(a)       == [k |-> "inaccessible", a |-> a]
SAsIs(t)        == [k |-> "as_is", t |-> t]
SApp(fns, args) == [k |-> "app", fns |-> fns, args |-> args]
FnHead(name, nlevels) == [name |-> name, nlevels |-> nlevels]
is_as_is(s) == s.k = "as_is"

(* The tactic declarations auto parameters may name, by what they do.     *)
TacDecl(name) == Tac("ok", T0("star"), {})

(* The declared type of a tactic an auto parameter names.                 *)
TacType(name) ==
    CASE name = "tac_nat"  -> T0("nat")
      [] name = "tac_deep" -> T0("deep")
      [] OTHER             -> T1("tactic", T0("unit"))

recover_expr_from_exception_rethrow(expected_type, r) ==
    IF r.exc = "none" THEN r ELSE Throw(r.st, r.exc)

recover_expr_from_exception(expected_type, r) ==
    IF r.exc = "none" THEN r
    ELSE Val([t \in {try_report(r.st)} |->
             IF t.reported THEN mk_sorry(t.st, expected_type)
             ELSE Throw(r.st, r.exc)])

save_identifier_info(e, f) ==
    IF e.pip /\ f.c \in FnNames THEN [e EXCEPT !.m_info = @ + 1] ELSE e

visit_sort(e) == Ok([e EXCEPT !.m_to_check_sorts = @ + 1], T0("Type"))

visit_const_core(e, fn) ==
    IF NumUnivParams(fn.name) < fn.nlevels
    THEN recoverable_error(e, NoTerm)
    ELSE Ok(e, T0(fn.name))

(* ensure_function: a declared function with binders left is a function;  *)
(* nothing else of this environment coerces to one.                       *)
ensure_function(e, r) ==
    IF is_pi(infer_type(e, r)) THEN Ok(e, r) ELSE Throw(e, "elab")

visit_function(e, fn, has_args) ==
    Val([r \in {visit_const_core(e, fn)} |->
        IF r.exc # "none" THEN r
        ELSE Val([e1 \in {save_identifier_info(r.st, r.val)} |->
                 IF has_args THEN ensure_function(e1, r.val) ELSE Ok(e1, r.val)])])

visit_placeholder(e, expected_type) ==
    IF expected_type # NoTerm THEN mk_metavar(e, expected_type)
    ELSE Val([r \in {mk_type_metavar(e)} |->
             mk_metavar(r.st, r.val)])

(* visit_by: strict_visit elaborates the tactic expression and then       *)
(* drains the worklists (synthesize) before the block is queued.          *)
visit_by(e, tac, expected_type) ==
    Val([s \in {synthesize(e)} |->
        IF s.exc # "none" THEN s
        ELSE Val([r \in {visit_placeholder(s.st, expected_type)} |->
                 Ok(Emit([r.st EXCEPT !.m_tactics =
                             cons([mvar |-> MvarId(r.val), tac |-> tac], @)],
                         "q_tac", MvarId(r.val), TRUE), r.val)])])

(* visit_prenum up to the instances it asks for; the numeral is           *)
(* (zero A S), (one_ A S) or a bit0/bit1 chain over (one_ A S).           *)
RECURSIVE convert(_, _, _, _, _)
convert(v, A, one, S_one, S_add) ==
    IF v = 1 THEN one
    ELSE IF v % 2 = 0
    THEN [c |-> "bit0", args |-> <<A, S_add, convert(v \div 2, A, one, S_one, S_add)>>]
    ELSE [c |-> "bit1", args |-> <<A, S_one, S_add,
                                   convert(v \div 2, A, one, S_one, S_add)>>]

SortLevel(s) ==
    CASE s = "Prop"  -> T0("zero")
      [] s = "Type"  -> T1("succ", T0("zero"))
      [] s = "Type1" -> T1("succ", T1("succ", T0("zero")))

get_level(e, A) ==
    IF infer_type(e, A).c \in {"Prop", "Type", "Type1"}
    THEN Ok(e, SortLevel(infer_type(e, A).c))
    ELSE IF is_metavar(infer_type(e, A))
    THEN Val([q \in {try_is_def_eq(e, infer_type(e, A), T0("sort_u"))} |->
             IF q.ok THEN Ok(q.st, T0("u")) ELSE Throw(q.st, "elab")])
    ELSE Throw(e, "elab")

visit_prenum_short(e, v, expected_type) ==
    Val([a \in {IF expected_type # NoTerm
              THEN Ok(IF is_metavar(expected_type)
                      THEN Emit([e EXCEPT !.m_numeral_types =
                                    cons(MvarId(expected_type), @)],
                                "q_num", MvarId(expected_type), TRUE)
                      ELSE e, expected_type)
              ELSE Val([r \in {mk_type_metavar(e)} |->
                       Ok(Emit([r.st EXCEPT !.m_numeral_types =
                                       cons(MvarId(r.val), @)],
                               "q_num", MvarId(r.val), TRUE), r.val)])} |->
    Val([A \in {a.val} |->
    Val([l \in {get_level(a.st, A)} |->
    Val([d \in {IF l.exc # "none" THEN l ELSE dec_level(l.st, l.val)} |->
        IF d.exc # "none" THEN Throw(d.st, d.exc)
        ELSE IF v < 0 THEN recoverable_error(d.st, A)
        ELSE IF v = 0
        THEN Val([S \in {mk_instance(d.st, T1("has_zero", A))} |->
                 IF S.exc # "none" THEN S ELSE Ok(S.st, T2("zero", A, S.val))])
        ELSE Val([S_one \in {mk_instance(d.st, T1("has_one", A))} |->
                 IF S_one.exc # "none" THEN S_one
                 ELSE Val([one \in {T2("one_", A, S_one.val)} |->
                          IF v <= 2 THEN Ok(S_one.st, one)
                          ELSE Val([S_add \in {mk_instance(S_one.st, T1("has_add", A))} |->
                                   IF S_add.exc # "none" THEN S_add
                                   ELSE Ok(S_add.st,
                                           convert(v, A, one, S_one.val, S_add.val))])])])])])])])

visit_prenum(e, v, expected_type) ==
    Val([a \in {IF expected_type # NoTerm
              THEN Ok(IF is_metavar(expected_type)
                      THEN Emit([e EXCEPT !.m_numeral_types =
                                    cons(MvarId(expected_type), @)],
                                "q_num", MvarId(expected_type), TRUE)
                      ELSE e, expected_type)
              ELSE Val([r \in {mk_type_metavar(e)} |->
                       Ok(Emit([r.st EXCEPT !.m_numeral_types =
                                       cons(MvarId(r.val), @)],
                               "q_num", MvarId(r.val), TRUE), r.val)])} |->
    Val([A \in {a.val} |->
    Val([l \in {get_level(a.st, A)} |->
    Val([d \in {IF l.exc # "none" THEN l ELSE dec_level(l.st, l.val)} |->
        IF d.exc # "none" THEN Throw(d.st, d.exc)
        ELSE IF v < 0 THEN recoverable_error(d.st, A)
        ELSE IF v = 0
        THEN Val([S \in {mk_instance(d.st, T1("has_zero", A))} |->
                 IF S.exc # "none" THEN S ELSE Ok(S.st, T2("zero", A, S.val))])
        ELSE Val([S_one \in {mk_instance(d.st, T1("has_one", A))} |->
                 IF S_one.exc # "none" THEN S_one
                 ELSE Val([one \in {T2("one_", A, S_one.val)} |->
                          IF v = 1 THEN Ok(S_one.st, one)
                          ELSE Val([S_add \in {mk_instance(S_one.st, T1("has_add", A))} |->
                                   IF S_add.exc # "none" THEN S_add
                                   ELSE Ok(S_add.st,
                                           convert(v, A, one, S_one.val, S_add.val))])])])])])])])

RECURSIVE visit(_, _, _)
visit_inaccessible(e, a, expected_type) ==
    IF ~e.m_in_pattern THEN Throw(e, "elab")
    ELSE Val([m \in {visit_placeholder(e, expected_type)} |->
         Val([r \in {visit([m.st EXCEPT !.m_in_pattern = FALSE], a, expected_type)} |->
         Val([e1 \in {[r.st EXCEPT !.m_in_pattern = TRUE]} |->
             IF r.exc # "none" THEN Throw(e1, r.exc)
             ELSE Ok([e1 EXCEPT !.m_inaccessible_stack =
                         cons([m |-> MvarId(m.val), val |-> r.val], @)],
                     T1("inaccessible", m.val))])])])

(* visit, on the terms that occur as arguments and as bodies in the       *)
(* inputs: atoms, numerals, tactic blocks and inaccessible patterns.  An  *)
(* application is elaborated by visit_app_core, below; the inputs nest no *)
(* application inside an argument.                                        *)
VisitCases(e, s, expected_type) ==
    CASE s.k = "placeholder"  -> visit_placeholder(e, expected_type)
      [] s.k = "sort"         -> visit_sort(e)
      [] s.k = "as_is"        -> Ok(e, s.t)
      [] s.k = "by"           -> visit_by(e, s.tac, expected_type)
      [] s.k = "num"          -> visit_prenum(e, s.v, expected_type)
      [] s.k = "inaccessible" -> visit_inaccessible(e, s.a, expected_type)

visit(e, s, expected_type) ==
    recover_expr_from_exception(expected_type, VisitCases(e, s, expected_type))

(***************************************************************************)
(* Application elaboration.                                                *)
(***************************************************************************)
RECURSIVE process_optional_and_auto_params(_, _, _)
RECURSIVE FirstPassLoop(_, _, _, _, _)
RECURSIVE SecondPassInstances(_, _, _, _)
RECURSIVE SecondPassLoop(_, _, _, _, _, _)
RECURSIVE SimpleLoop(_, _, _, _, _, _)

Tele(fn) == IF fn.c \in FnNames THEN FnDecl(fn.c).tele ELSE <<>>
AppType(e, fn, new_args) ==
    IF fn.c \in FnNames THEN ResultType(fn.c, new_args) ELSE infer_type(e, fn)
mk_app(fn, new_args) ==
    IF fn.c \in FnNames THEN [c |-> fn.c, args |-> new_args] ELSE fn

mk_auto_param(e, tac, expected_type) ==
    IF tac \notin e.m_env THEN Throw(e, "elab")
    ELSE Val([q \in {m_ctx_is_def_eq(e, TacType(tac), T1("tactic", T0("unit")))} |->
             IF q.exc # "none" THEN Throw(q.st, q.exc)
             ELSE IF ~q.ok THEN Throw(q.st, "elab")
             ELSE visit(q.st, SBy(TacDecl(tac)), expected_type)])

(* The binders left after the explicit arguments: an optional or auto     *)
(* parameter is filled in; the first binder that is neither ends the      *)
(* walk (the eta-expanded tail is shrunk away).                           *)
process_optional_and_auto_params(e, fn, new_args) ==
    Val([k \in {Len(new_args) + 1} |->
        IF k > Len(Tele(fn)) THEN [st |-> e, exc |-> "none", new_args |-> new_args]
        ELSE Val([b \in {Tele(fn)[k]} |->
                 IF b.param = "auto"
                 THEN Val([r \in {mk_auto_param(e, b.tac, instantiate(b.d, new_args))} |->
                          IF r.exc # "none"
                          THEN [st |-> r.st, exc |-> r.exc, new_args |-> new_args]
                          ELSE process_optional_and_auto_params(
                                   r.st, fn, Append(new_args, r.val))])
                 ELSE [st |-> e, exc |-> "none", new_args |-> new_args]])])

EmptyInfo ==
    [new_args |-> <<>>, new_instances |-> <<>>, args_expected_types |-> <<>>,
     args_mvars |-> <<>>, new_args_size |-> <<>>, new_instances_size |-> <<>>]

FirstPassLoop(e, fn, args, i, info) ==
    Val([k \in {Len(info.new_args) + 1} |->
    Val([done \in {[st |-> e, exc |-> "none", i |-> i, info |-> info]} |->
        IF k > Len(Tele(fn)) THEN done
        ELSE Val([b \in {Tele(fn)[k]} |->
             Val([d \in {instantiate(b.d, info.new_args)} |->
                 IF b.bi = "strict_implicit" /\ i = Len(args) THEN done
                 ELSE IF b.bi # "explicit"
                 THEN Val([r \in {mk_metavar(e, d)} |->
                          FirstPassLoop(r.st, fn, args, i,
                            [info EXCEPT
                               !.new_instances = IF b.bi = "inst_implicit"
                                                 THEN Append(@, MvarId(r.val))
                                                 ELSE @,
                               !.new_args = Append(@, r.val)])])
                 ELSE IF i < Len(args)
                 THEN Val([arg \in {args[i + 1]} |->
                      Val([r \in {IF is_as_is(arg)
                                 THEN Val([h \in {ensure_has_type(
                                                  e, arg.t, infer_type(e, arg.t), d)} |->
                                          IF h.exc # "none" THEN Throw(h.st, h.exc)
                                          ELSE IF ~h.some THEN Throw(h.st, "elab")
                                          ELSE Ok(h.st, h.val)])
                                 ELSE mk_metavar(e, d)} |->
                          IF r.exc # "none"
                          THEN [st |-> r.st, exc |-> r.exc, i |-> i, info |-> info]
                          ELSE FirstPassLoop(r.st, fn, args, i + 1,
                                 [info EXCEPT
                                    !.args_expected_types = Append(@, d),
                                    !.args_mvars = Append(@, r.val),
                                    !.new_args_size = Append(@, Len(info.new_args)),
                                    !.new_instances_size =
                                        Append(@, Len(info.new_instances)),
                                    !.new_args = Append(@, r.val)])])])
                 ELSE done])])])])

first_pass(e, fn, args, expected_type) ==
    Val([l \in {FirstPassLoop(e, fn, args, 0, EmptyInfo)} |->
        IF l.exc # "none" THEN [st |-> l.st, exc |-> l.exc, info |-> l.info]
        ELSE Val([p \in {process_optional_and_auto_params(l.st, fn, l.info.new_args)} |->
             Val([info \in {[l.info EXCEPT !.new_args = p.new_args]} |->
                 IF p.exc # "none" THEN [st |-> p.st, exc |-> p.exc, info |-> info]
                 ELSE IF l.i # Len(args)
                 THEN [st |-> p.st, exc |-> "elab", info |-> info]
                 ELSE Val([q \in {is_def_eq(p.st, expected_type,
                                         AppType(p.st, fn, p.new_args))} |->
                          IF ~q.ok THEN [st |-> q.st, exc |-> "elab", info |-> info]
                          ELSE [st |-> q.st, exc |-> "none", info |-> info]])])])])

elaborate_arg(e, arg, expected_type) ==
    Val([r \in {visit(e, arg, expected_type)} |->
        IF r.exc # "none" THEN Raise(r.st, r.exc)
        ELSE Val([h \in {ensure_has_type(r.st, r.val, infer_type(r.st, r.val),
                                      expected_type)} |->
                 [h EXCEPT !.val = IF h.some THEN h.val ELSE r.val]])])

(* Process the instances new_instances[j+1 .. upto] of the first pass.    *)
SecondPassInstances(e, info, j, upto) ==
    IF j >= upto THEN Ok(e, NoTerm)
    ELSE Val([mvar \in {info.new_instances[j + 1]} |->
         Val([r \in {try_synthesize_type_class_instance(e, mvar)} |->
             IF r.exc # "none" THEN Throw(r.st, r.exc)
             ELSE SecondPassInstances(
                      IF r.res THEN Emit(r.st, "sp_inst", mvar, TRUE)
                      ELSE Emit(Emit([r.st EXCEPT !.m_instances = cons(mvar, @)],
                                     "q_inst", mvar, FALSE),
                                "sp_inst", mvar, FALSE),
                      info, j + 1, upto)])])

SecondPassArg(e, arg, expected_type, arg_mvar) ==
    IF is_metavar(arg_mvar)
    THEN Val([a \in {elaborate_arg(e, arg, expected_type)} |->
             IF a.exc # "none" THEN Throw(a.st, a.exc)
             ELSE IF ~a.some THEN Throw(a.st, "elab")
             ELSE Val([q \in {is_def_eq(a.st, arg_mvar, a.val)} |->
                      IF ~q.ok THEN Throw(q.st, "elab") ELSE Ok(q.st, a.val)])])
    ELSE Ok(e, arg_mvar)

SecondPassLoop(e, fn, args, info, i, j) ==
    IF i >= Len(args)
    THEN Val([r \in {SecondPassInstances(e, info, j, Len(info.new_instances))} |->
             IF r.exc # "none" THEN r
             ELSE Ok(r.st, mk_app(fn, info.new_args))])
    ELSE Val([r \in {SecondPassInstances(e, info, j, info.new_instances_size[i + 1])} |->
             IF r.exc # "none" THEN r
             ELSE Val([expected_type \in {info.args_expected_types[i + 1]} |->
                  Val([a \in {recover_expr_from_exception(expected_type,
                               SecondPassArg(Emit(r.st, "sp_arg", i + 1, TRUE),
                                             args[i + 1], expected_type,
                                             info.args_mvars[i + 1]))} |->
                      IF a.exc # "none" THEN a
                      ELSE SecondPassLoop(a.st, fn, args,
                               [info EXCEPT
                                  !.new_args[info.new_args_size[i + 1] + 1] = a.val],
                               i + 1,
                               IF j > info.new_instances_size[i + 1] THEN j
                               ELSE info.new_instances_size[i + 1])])])])

(* second_pass that leaves every instance to the end.                     *)
second_pass_late(e, fn, args, info) ==
    SecondPassLoop(e, fn, args,
        [info EXCEPT !.new_instances_size = [i \in DOMAIN @ |-> 0]], 0, 0)

second_pass(e, fn, args, info) == SecondPassLoop(e, fn, args, info, 0, 0)

is_with_expected_candidate(fn) ==
    fn.c \in FnNames /\ get_elaborator_strategy(fn.c) = "WithExpectedType"

(* visit_base_app_simple; args are surface terms, or elaborated terms     *)
(* when args_already_visited.                                             *)
SimpleFail(st, new_args) == [st |-> st, exc |-> "elab", new_args |-> new_args]

SimpleLoop(e, fn, args, args_already_visited, i, new_args) ==
    Val([k \in {Len(new_args) + 1} |->
    Val([done \in {[st |-> e, exc |-> "none", new_args |-> new_args]} |->
        IF k <= Len(Tele(fn))
        THEN Val([b \in {Tele(fn)[k]} |->
             Val([d \in {instantiate(b.d, new_args)} |->
                 IF b.bi = "strict_implicit" /\ i = Len(args) THEN done
                 ELSE IF b.bi # "explicit"
                 THEN Val([r \in {IF b.bi = "inst_implicit" THEN mk_instance(e, d)
                               ELSE mk_metavar(e, d)} |->
                          IF r.exc # "none"
                          THEN [st |-> r.st, exc |-> r.exc, new_args |-> new_args]
                          ELSE SimpleLoop(r.st, fn, args, args_already_visited, i,
                                          Append(new_args, r.val))])
                 ELSE IF i < Len(args)
                 THEN Val([r \in {IF args_already_visited THEN Ok(e, args[i + 1])
                               ELSE visit(e, args[i + 1], d)} |->
                          IF r.exc # "none"
                          THEN [st |-> r.st, exc |-> r.exc, new_args |-> new_args]
                          ELSE Val([h \in {ensure_has_type(
                                            r.st, r.val, infer_type(r.st, r.val), d)} |->
                                   IF h.exc # "none"
                                   THEN [st |-> h.st, exc |-> h.exc,
                                         new_args |-> new_args]
                                   ELSE IF ~h.some THEN SimpleFail(h.st, new_args)
                                   ELSE SimpleLoop(h.st, fn, args,
                                            args_already_visited, i + 1,
                                            Append(new_args, h.val))])])
                 ELSE done])])
        ELSE IF i < Len(args) THEN SimpleFail(e, new_args)  \* not a function
        ELSE done])])

visit_base_app_simple(e, fn, args, args_already_visited, expected_type) ==
    Val([l \in {SimpleLoop(e, fn, args, args_already_visited, 0, <<>>)} |->
        IF l.exc # "none" THEN Throw(l.st, l.exc)
        ELSE Val([p \in {process_optional_and_auto_params(l.st, fn, l.new_args)} |->
                 IF p.exc # "none" THEN Throw(p.st, p.exc)
                 ELSE Val([r \in {mk_app(fn, p.new_args)} |->
                          IF expected_type # NoTerm
                          THEN Val([h \in {ensure_has_type(
                                           p.st, r, AppType(p.st, fn, p.new_args),
                                           expected_type)} |->
                                   IF h.exc # "none" THEN Throw(h.st, h.exc)
                                   ELSE IF h.some THEN Ok(h.st, h.val)
                                   ELSE Ok(h.st, r)])
                          ELSE Ok(p.st, r)])])])

(* visit_base_app_core.  path tells which way the call went, fallback is  *)
(* the session the single-pass elaborator was started from after a failed *)
(* first pass, and nested says that the error raised carries the          *)
(* first-pass error as its context.                                       *)
BaseResult(r, path, fallback, nested) ==
    [st |-> r.st, exc |-> r.exc, val |-> r.val, path |-> path,
     fallback |-> fallback, nested |-> nested]

(* The catch clause of visit_base_app_core without C.restore: the         *)
(* single-pass elaborator starts from what the first pass left behind.    *)
FallbackWithoutRestore(C, e1, fn, args, expected_type) ==
    Val([r \in {visit_base_app_simple(e1, fn, args, FALSE, expected_type)} |->
        BaseResult(r, "fallback", e1, r.exc = "elab")])

(* The catch clause of visit_base_app_core: C is the snapshot taken       *)
(* before the first pass, e1 the session the failed first pass left.      *)
FallbackToSimple(C, e1, fn, args, expected_type) ==
    Val([e2 \in {restore(C, e1)} |->
    Val([r \in {visit_base_app_simple(e2, fn, args, FALSE, expected_type)} |->
        BaseResult(r, "fallback", e2, r.exc = "elab")])])

visit_base_app_core(e, fn, args, args_already_visited, expected_type) ==
    IF args_already_visited \/ ~is_with_expected_candidate(fn)
       \/ expected_type = NoTerm
    THEN BaseResult(visit_base_app_simple(e, fn, args, args_already_visited,
                                          expected_type), "simple", e, FALSE)
    ELSE Val([C \in {snapshot(e)} |->
         Val([f \in {first_pass([e EXCEPT !.m_recover_from_errors = FALSE],
                              fn, args, expected_type)} |->
         Val([e1 \in {[f.st EXCEPT !.m_recover_from_errors = e.m_recover_from_errors]} |->
             IF f.exc = "elab"
             THEN FallbackToSimple(C, e1, fn, args, expected_type)
             ELSE IF f.exc # "none"
             THEN BaseResult(Throw(e1, f.exc), "first_pass", e, FALSE)
             ELSE BaseResult(second_pass(e1, fn, args, f.info), "two_pass",
                             e, FALSE)])])])

visit_base_app(e, fn, args, expected_type) ==
    Val([r \in {visit_base_app_core(e, fn, args, FALSE, expected_type)} |->
        [st |-> r.st, exc |-> r.exc, val |-> r.val]])

visit_overload_candidate(e, fn, args, expected_type) ==
    Val([r \in {visit_base_app_core(e, fn, args, TRUE, expected_type)} |->
        [st |-> r.st, exc |-> r.exc, val |-> r.val]])

(***************************************************************************)
(* Overloaded applications.  A candidate is [val, snap, fn]; fn is the    *)
(* candidate's position in fns.  IsLeanException: the exception kinds the *)
(* two catch clauses of a trial catch.                                    *)
(***************************************************************************)
RECURSIVE VisitArgs(_, _, _, _)
RECURSIVE CoreTrials(_, _, _, _, _, _, _, _)
RECURSIVE ExpectedTrials(_, _, _, _, _, _, _, _)

IsLeanException(k) == k \in {"elab", "other"}

VisitArgs(e, args, i, new_args) ==
    IF i > Len(args) THEN [st |-> e, exc |-> "none", new_args |-> new_args]
    ELSE Val([r \in {visit(e, args[i], NoTerm)} |->
             IF r.exc # "none"
             THEN [st |-> r.st, exc |-> r.exc, new_args |-> new_args]
             ELSE VisitArgs(r.st, args, i + 1, Append(new_args, r.val))])

(* One iteration of the loop over fns in visit_overloaded_app_core.       *)
CoreTrial(e, S, fn, new_args, expected_type) ==
    Val([e0 \in {restore(S, [e EXCEPT !.m_recover_from_errors = FALSE])} |->
    Val([f \in {visit_function(e0, fn, new_args # <<>>)} |->
    Val([c \in {IF f.exc # "none" THEN f
              ELSE visit_overload_candidate(f.st, f.val, new_args, expected_type)} |->
    Val([s \in {IF c.exc # "none" THEN c
              ELSE synthesize_type_class_instances(c.st)} |->
    Val([h \in {IF s.exc # "none" THEN Raise(s.st, s.exc)
              ELSE IF expected_type = NoTerm THEN Some(s.st, c.val)
              ELSE ensure_has_type(s.st, c.val, infer_type(s.st, c.val),
                                   expected_type)} |->
    Val([st \in {[h.st EXCEPT !.m_recover_from_errors =
                                   e.m_recover_from_errors]} |->
        IF h.exc # "none"
        THEN [st |-> st, exc |-> h.exc, ok |-> FALSE, val |-> NoTerm]
        ELSE IF ~h.some
        THEN [st |-> st, exc |-> "elab", ok |-> FALSE, val |-> NoTerm]
        ELSE [st |-> st, exc |-> "none", ok |-> TRUE, val |-> c.val]])])])])])])

CoreTrials(e, S, fns, new_args, expected_type, i, candidates, error_msgs) ==
    IF i > Len(fns)
    THEN [st |-> e, exc |-> "none", candidates |-> candidates,
          error_msgs |-> error_msgs]
    ELSE Val([t \in {CoreTrial(e, S, fns[i], new_args, expected_type)} |->
             IF t.ok
             THEN CoreTrials(t.st, S, fns, new_args, expected_type, i + 1,
                      Append(candidates,
                             [val |-> t.val, snap |-> snapshot(t.st), fn |-> i]),
                      error_msgs)
             ELSE IF IsLeanException(t.exc)
             THEN CoreTrials(t.st, S, fns, new_args, expected_type, i + 1,
                             candidates, Append(error_msgs, i))
             ELSE [st |-> t.st, exc |-> t.exc, candidates |-> candidates,
                   error_msgs |-> error_msgs]])

(* outcome: "unique", "none" (no overload applicable, the message has one *)
(* reason per entry of reasons), "ambiguous" (the message lists listed),  *)
(* or "raised" (an exception left the call before the outcome).  pre is   *)
(* the session the snapshot S was taken of.                               *)
CoreResult(r, outcome, t, S, pre, reasons, listed) ==
    [st |-> r.st, exc |-> r.exc, val |-> r.val, outcome |-> outcome,
     candidates |-> t.candidates, error_msgs |-> t.error_msgs, S |-> S,
     pre |-> pre, reasons |-> reasons, listed |-> listed]

NoTrials == [candidates |-> <<>>, error_msgs |-> <<>>]

(* The end of visit_overloaded_app_core with a tie-break by position: of  *)
(* several successful candidates the first one is committed.              *)
CoreDecideFirst(t, S, pre) ==
    IF t.candidates = <<>>
    THEN CoreResult(Throw(restore(S, t.st), "elab"), "none", t, S, pre,
                    t.error_msgs, <<>>)
    ELSE CoreResult(Ok(restore(t.candidates[1].snap, t.st),
                       t.candidates[1].val),
                    "unique", t, S, pre, <<>>, <<>>)

(* The end of visit_overloaded_app_core: what it does with the candidates *)
(* and error messages t collected by the loop over fns.                   *)
CoreDecide(t, S, pre) ==
    IF t.candidates = <<>>
    THEN CoreResult(Throw(restore(S, t.st), "elab"), "none", t, S, pre,
                    t.error_msgs, <<>>)
    ELSE IF Len(t.candidates) > 1
    THEN CoreResult(Throw(restore(S, t.st), "elab"), "ambiguous", t, S, pre,
                    <<>>, [k \in DOMAIN t.candidates |-> t.candidates[k].fn])
    ELSE CoreResult(Ok(restore(t.candidates[1].snap, t.st),
                       t.candidates[1].val),
                    "unique", t, S, pre, <<>>, <<>>)

visit_overloaded_app_core(e, fns, args, expected_type) ==
    Val([a \in {VisitArgs(e, args, 1, <<>>)} |->
        IF a.exc # "none"
        THEN CoreResult(Throw(a.st, a.exc), "raised", NoTrials, snapshot(e), e,
                        <<>>, <<>>)
        ELSE Val([S \in {snapshot(a.st)} |->
             Val([t \in {CoreTrials(a.st, S, fns, a.new_args, expected_type, 1,
                                 <<>>, <<>>)} |->
                 IF t.exc # "none"
                 THEN CoreResult(Throw(t.st, t.exc), "raised", t, S, a.st,
                                 <<>>, <<>>)
                 ELSE CoreDecide(t, S, a.st)])])])

(* One iteration of the loop over fns in                                  *)
(* visit_overloaded_app_with_expected.                                    *)
ExpectedTrial(e, S, fn, args, expected_type) ==
    Val([e0 \in {restore(S, e)} |->
    Val([f \in {visit_function(e0, fn, args # <<>>)} |->
    Val([p \in {IF f.exc # "none"
              THEN [st |-> f.st, exc |-> f.exc, info |-> EmptyInfo]
              ELSE first_pass(f.st, f.val, args, expected_type)} |->
        [st |-> p.st, exc |-> p.exc, ok |-> p.exc = "none", val |-> f.val,
         info |-> p.info]])])])

ExpectedTrials(e, S, fns, args, expected_type, i, candidates, error_msgs) ==
    IF i > Len(fns)
    THEN [st |-> e, exc |-> "none", candidates |-> candidates,
          error_msgs |-> error_msgs]
    ELSE Val([t \in {ExpectedTrial(e, S, fns[i], args, expected_type)} |->
             IF t.ok
             THEN ExpectedTrials(t.st, S, fns, args, expected_type, i + 1,
                      Append(candidates,
                             [val |-> t.val, snap |-> snapshot(t.st), fn |-> i,
                              info |-> t.info]),
                      error_msgs)
             ELSE IF IsLeanException(t.exc)
             THEN ExpectedTrials(t.st, S, fns, args, expected_type, i + 1,
                                 candidates, Append(error_msgs, i))
             ELSE [st |-> t.st, exc |-> t.exc, candidates |-> candidates,
                   error_msgs |-> error_msgs]])

(* route: "second_pass" (one first-pass candidate), "core" (the retry by  *)
(* basic resolution) or "raised".  entry is the session on entry,         *)
(* after_trials the session when the loop over fns is over, retry_from    *)
(* the session basic resolution was started from, core its result.        *)
ExpectedResult(r, route, t, S, entry, after_trials, retry_from, core) ==
    [st |-> r.st, exc |-> r.exc, val |-> r.val, route |-> route,
     candidates |-> t.candidates, error_msgs |-> t.error_msgs, S |-> S,
     entry |-> entry, after_trials |-> after_trials,
     retry_from |-> retry_from, core |-> core,
     nested |-> r.exc = "elab" /\ route # "raised"]

NoCore == [outcome |-> "not_run"]

(* The switch to basic resolution without S.restore: it starts from the   *)
(* session the last trial left.                                           *)
ExpectedRetryWithoutRestore(e, S, t, fns, args, expected_type) ==
    Val([r \in {visit_overloaded_app_core(t.st, fns, args, expected_type)} |->
        ExpectedResult(r, "core", t, S, e, t.st, t.st, r)])

(* The switch of visit_overloaded_app_with_expected to basic resolution,  *)
(* taken when no candidate or more than one passed the first pass.        *)
ExpectedRetry(e, S, t, fns, args, expected_type) ==
    Val([e1 \in {restore(S, t.st)} |->
    Val([r \in {visit_overloaded_app_core(e1, fns, args, expected_type)} |->
        ExpectedResult(r, "core", t, S, e, t.st, e1, r)])])

visit_overloaded_app_with_expected(e, fns, args, expected_type) ==
    Val([S \in {snapshot(e)} |->
    Val([t \in {ExpectedTrials(e, S, fns, args, expected_type, 1, <<>>, <<>>)} |->
        IF t.exc # "none"
        THEN ExpectedResult(Throw(t.st, t.exc), "raised", t, S, e, t.st, e,
                            NoCore)
        ELSE IF Len(t.candidates) = 1
        THEN Val([c \in {t.candidates[1]} |->
             Val([e1 \in {restore(c.snap, t.st)} |->
                 ExpectedResult(second_pass(e1, c.val, args, c.info),
                                "second_pass", t, S, e, t.st, e, NoCore)])])
        ELSE ExpectedRetry(e, S, t, fns, args, expected_type)])])

visit_overloaded_app(e, fns, args, expected_type) ==
    IF expected_type # NoTerm
    THEN Val([r \in {visit_overloaded_app_with_expected(e, fns, args,
                                                     expected_type)} |->
             [st |-> r.st, exc |-> r.exc, val |-> r.val]])
    ELSE Val([r \in {visit_overloaded_app_core(e, fns, args, expected_type)} |->
             [st |-> r.st, exc |-> r.exc, val |-> r.val]])

visit_app_core(e, fns, args, expected_type) ==
    IF Len(fns) > 1
    THEN visit_overloaded_app(e, fns, args, expected_type)
    ELSE Val([f \in {visit_function(e, fns[1], args # <<>>)} |->
             IF f.exc # "none" THEN f
             ELSE visit_base_app(f.st, f.val, args, expected_type)])

(***************************************************************************)
(* The final check of a term: every unassigned metavariable left in it is *)
(* reported and filled with a placeholder of its type.                    *)
(***************************************************************************)
RECURSIVE MvarSeq(_)
RECURSIVE FlattenSeq(_, _)
RECURSIVE ensure_no_unassigned_metavars(_, _)
RECURSIVE EnsureEach(_, _, _)

FlattenSeq(ss, i) == IF i > Len(ss) THEN <<>> ELSE ss[i] \o FlattenSeq(ss, i + 1)
MvarSeq(t) ==
    IF is_metavar(t) THEN <<MvarId(t)>>
    ELSE IF is_bvar(t) THEN <<>>
    ELSE FlattenSeq([i \in DOMAIN t.args |-> MvarSeq(t.args[i])], 1)

report_error(e) ==
    IF ~e.pip THEN e
    ELSE [e EXCEPT !.reported = @ + 1, !.m_has_errors = TRUE]

EnsureEach(e, ms, i) ==
    IF i > Len(ms) THEN Ok(e, NoTerm)
    ELSE IF is_assigned(e.mctx, ms[i]) THEN EnsureEach(e, ms, i + 1)
    ELSE IF ~e.m_recover_from_errors THEN Throw(e, "elab")
    ELSE Val([e1 \in {report_error(e)} |->
         Val([ty \in {e1.mctx.decl[ms[i]]} |->
         Val([e2 \in {[e1 EXCEPT !.mctx = mctx_assign(e1.mctx, ms[i], T1("sorry", ty))]} |->
         Val([r1 \in {ensure_no_unassigned_metavars(e2, ty)} |->
         Val([r2 \in {IF r1.exc # "none" THEN r1
                   ELSE ensure_no_unassigned_metavars(
                            r1.st, instantiate_mvars(r1.st, MVar(ms[i])))} |->
             IF r2.exc # "none" THEN r2 ELSE EnsureEach(r2.st, ms, i + 1)])])])])])

ensure_no_unassigned_metavars(e, t) ==
    IF ~has_expr_metavar(t) \/ (e.m_in_pattern /\ e.m_in_quote) THEN Ok(e, t)
    ELSE Val([r \in {EnsureEach(e, MvarSeq(t), 1)} |->
             IF r.exc # "none" THEN r
             ELSE Ok(r.st, instantiate_mvars(r.st, t))])

(***************************************************************************)
(* The session as a state machine.  elab is the elaborator object; saved  *)
(* is the snapshot object the caller holds (with src, the session it was  *)
(* taken of); last names the operation that ran last and the kind of     *)
(* exception it raised; tc is the position inside synthesize(): pc        *)
(* is "idle" outside it, "tc" inside the loop of                          *)
(* synthesize_type_class_instances (rounds scans have replaced the        *)
(* pending list, which had len0 entries when the loop was entered) and    *)
(* "tactics" between that loop and synthesize_using_tactics.  arrival is  *)
(* a history variable: for each pending list, its entries in the order    *)
(* in which they were queued (oldest first), read off the events of the   *)
(* operations.                                                            *)
(***************************************************************************)
(***************************************************************************)
(* Unification hints (unification_hint.cpp).  A hint is its two patterns, *)
(* its side constraints in declared order and the number of its pattern   *)
(* variables; the k-th variable bound by the declaration is #k.  A hint   *)
(* declaration of the catalogue is the value of a definition after its    *)
(* lambdas: wf says whether it is unification_hint.mk applied to a        *)
(* pattern and an explicit list of constraints.                           *)
(***************************************************************************)
HintDecl(nv, lhs, rhs, cs) ==
    [wf |-> TRUE, num_vars |-> nv, lhs |-> lhs, rhs |-> rhs, cs |-> cs]

HintDecls ==
    << HintDecl(3, T2("add", BVar(1), BVar(2)), T1("double", BVar(3)),
                << <<BVar(1), BVar(3)>>, <<BVar(2), BVar(3)>> >>),
       HintDecl(3, T2("add", BVar(1), BVar(2)), T1("double", BVar(3)),
                << <<BVar(1), BVar(3)>> >>),
       HintDecl(3, T1("double", BVar(3)), T2("add", BVar(1), BVar(2)),
                << <<BVar(3), T0("n0")>>, <<BVar(1), BVar(3)>>,
                   <<BVar(2), BVar(3)>> >>),
       HintDecl(2, T1("inc", BVar(1)), T1("succ", BVar(2)),
                << <<BVar(1), BVar(2)>> >>),
       HintDecl(1, BVar(1), T1("double", BVar(1)), <<>>),
       HintDecl(3, T2("add", BVar(1), BVar(2)), T1("double", BVar(3)),
                << <<T0("n0"), T0("n1")>> >>),
       HintDecl(1, T2("add", BVar(1), T0("n0")), T1("double", T0("n1")), <<>>),
       [HintDecl(0, NoTerm, NoTerm, <<>>) EXCEPT !.wf = FALSE] >>

(* quick_cmp on the names of the catalogue: their order.                  *)
NameRank(n) ==
    CASE n = "add" -> 1 [] n = "double" -> 2 [] n = "inc" -> 3
      [] n = "succ" -> 4 [] OTHER -> 5
quick_cmp(n1, n2) ==
    IF NameRank(n1) < NameRank(n2) THEN 0 - 1
    ELSE IF NameRank(n1) > NameRank(n2) THEN 1 ELSE 0

get_app_fn(t)  == T0(t.c)
is_constant(t) == ~is_metavar(t) /\ ~is_bvar(t) /\ t # NoTerm
const_name(t)  == t.c

(* The checker the registration and the application of a hint use: the    *)
(* definitions double x := add x x and inc x := succ x are unfolded.      *)
RECURSIVE Unfold(_)
Unfold(t) ==
    IF t.c = "double" /\ Len(t.args) = 1
    THEN T2("add", Unfold(t.args[1]), Unfold(t.args[1]))
    ELSE IF t.c = "inc" /\ Len(t.args) = 1
    THEN T1("succ", Unfold(t.args[1]))
    ELSE [c |-> t.c, args |-> [i \in DOMAIN t.args |-> Unfold(t.args[i])]]

tmp_is_def_eq(mctx, t1, t2) ==
    ctx_is_def_eq(mctx, Unfold(InstTerm(mctx, t1)), Unfold(InstTerm(mctx, t2)))

(* The temporary metavariables ?1 .. ?num_vars that stand for the pattern *)
(* variables, and instantiate_rev with them.                              *)
TmpCtx(nv) ==
    [decl |-> [i \in Ids |-> IF i <= nv THEN T0("nat") ELSE NoTerm],
     asg  |-> [i \in Ids |-> NoTerm]]
TmpMvars(nv) == [i \in 1..nv |-> MVar(i)]
instantiate_rev(t, nv) == instantiate(t, TmpMvars(nv))

unification_hint(lhs, rhs, constraints, num_vars) ==
    [m_lhs |-> lhs, m_rhs |-> rhs, m_constraints |-> constraints,
     m_num_vars |-> num_vars]

(* unification_hint_cmp answers 0.                                        *)
unification_hint_cmp_eq(uh1, uh2) ==
    /\ uh1.m_lhs = uh2.m_lhs
    /\ uh1.m_rhs = uh2.m_rhs
    /\ \A i \in DOMAIN uh1.m_constraints \cap DOMAIN uh2.m_constraints :
          uh1.m_constraints[i] = uh2.m_constraints[i]

(* unification_hint_queue: a priority queue whose elements are identified *)
(* by unification_hint_cmp; pos is the value of the insertion counter.    *)
EmptyQueue == [m_next |-> 0, elems |-> {}]
queue_insert(q, v, prio) ==
    [m_next |-> q.m_next + 1,
     elems  |-> { x \in q.elems : ~unification_hint_cmp_eq(x.v, v) }
                \cup { [v |-> v, prio |-> prio, pos |-> q.m_next] }]
QueueBefore(x, y) ==
    x.prio > y.prio \/ (x.prio = y.prio /\ x.pos > y.pos)
RECURSIVE to_buffer(_)
to_buffer(elems) ==
    IF elems = {} THEN <<>>
    ELSE Val([x \in {CHOOSE x \in elems :
                       \A y \in elems \ {x} : QueueBefore(x, y)} |->
             <<x>> \o to_buffer(elems \ {x})])

(* unification_hint_state.  log is the list of the registrations that     *)
(* succeeded, as they were asked for.                                     *)
NoHints == [m_hints |-> <<>>, m_decl_names_to_prio |-> <<>>, log |-> <<>>]

find(m_hints, key) ==
    IF key \in DOMAIN m_hints THEN m_hints[key] ELSE EmptyQueue

RECURSIVE UnifyConstraints(_, _, _, _)
UnifyConstraints(mctx, cs, nv, i) ==
    IF i > Len(cs) THEN [ok |-> TRUE, mctx |-> mctx]
    ELSE Val([r \in {tmp_is_def_eq(mctx, instantiate_rev(cs[i][1], nv),
                                         instantiate_rev(cs[i][2], nv))} |->
             IF r.ok THEN UnifyConstraints(r.mctx, cs, nv, i + 1)
             ELSE [ok |-> FALSE, mctx |-> mctx]])

(* The pattern sides as register_hint stores them, and the key.           *)
HintSwapped(d) == quick_cmp(d.lhs.c, d.rhs.c) > 0
HintLhs(d) == IF HintSwapped(d) THEN d.rhs ELSE d.lhs
HintRhs(d) == IF HintSwapped(d) THEN d.lhs ELSE d.rhs
HintKey(d) == << const_name(get_app_fn(HintLhs(d))),
                 const_name(get_app_fn(HintRhs(d))) >>

(* register_hint without the swap of the two sides.                       *)
register_hint_unswapped(st, decl_name, d, priority) ==
    Val([s1 \in {[st EXCEPT !.m_decl_names_to_prio =
                     [n \in DOMAIN @ \cup {decl_name} |->
                         IF n = decl_name THEN priority ELSE @[n]]]} |->
        IF ~d.wf THEN [st |-> s1, exc |-> "exception"]
        ELSE IF ~is_constant(get_app_fn(d.lhs)) \/ ~is_constant(get_app_fn(d.rhs))
        THEN [st |-> s1, exc |-> "exception"]
        ELSE Val([u \in {UnifyConstraints(TmpCtx(d.num_vars), d.cs, d.num_vars, 1)} |->
             IF ~u.ok THEN [st |-> s1, exc |-> "exception"]
             ELSE IF ~tmp_is_def_eq(u.mctx, instantiate_rev(d.lhs, d.num_vars),
                                    instantiate_rev(d.rhs, d.num_vars)).ok
             THEN [st |-> s1, exc |-> "exception"]
             ELSE Val([key \in {<<d.lhs.c, d.rhs.c>>} |->
                  Val([hint \in {unification_hint(d.lhs, d.rhs, d.cs,
                                                  d.num_vars)} |->
                      [st |-> [s1 EXCEPT
                                 !.m_hints = [k \in DOMAIN @ \cup {key} |->
                                     IF k = key
                                     THEN queue_insert(find(s1.m_hints, key),
                                                       hint, priority)
                                     ELSE @[k]],
                                 !.log = Append(@, [hint |-> hint, key |-> key,
                                                    prio |-> priority])],
                       exc |-> "none"]])])])])

register_hint(st, decl_name, d, priority) ==
    Val([s1 \in {[st EXCEPT !.m_decl_names_to_prio =
                     [n \in DOMAIN @ \cup {decl_name} |->
                         IF n = decl_name THEN priority ELSE @[n]]]} |->
        IF ~d.wf THEN [st |-> s1, exc |-> "exception"]
        ELSE IF ~is_constant(get_app_fn(d.lhs)) \/ ~is_constant(get_app_fn(d.rhs))
        THEN [st |-> s1, exc |-> "exception"]
        ELSE Val([u \in {UnifyConstraints(TmpCtx(d.num_vars), d.cs, d.num_vars, 1)} |->
             IF ~u.ok THEN [st |-> s1, exc |-> "exception"]
             ELSE IF ~tmp_is_def_eq(u.mctx, instantiate_rev(HintLhs(d), d.num_vars),
                                    instantiate_rev(HintRhs(d), d.num_vars)).ok
             THEN [st |-> s1, exc |-> "exception"]
             ELSE Val([key \in {HintKey(d)} |->
                  Val([hint \in {unification_hint(HintLhs(d), HintRhs(d), d.cs,
                                                  d.num_vars)} |->
                      [st |-> [s1 EXCEPT
                                 !.m_hints = [k \in DOMAIN @ \cup {key} |->
                                     IF k = key
                                     THEN queue_insert(find(s1.m_hints, key),
                                                       hint, priority)
                                     ELSE @[k]],
                                 !.log = Append(@, [hint |-> hint, key |-> key,
                                                    prio |-> priority])],
                       exc |-> "none"]])])])])

get_unification_hints(m_hints, n1, n2) ==
    IF quick_cmp(n1, n2) > 0
    THEN to_buffer(find(m_hints, <<n2, n1>>).elems)
    ELSE to_buffer(find(m_hints, <<n1, n2>>).elems)

(* The use the checker makes of the hints when it is stuck on e1 =?= e2:  *)
(* the hints of the two heads in the order of the buffer; a hint is       *)
(* tried with fresh metavariables for its variables, the pair is unified  *)
(* with its patterns (either way round), then its constraints are checked *)
(* in order.  checked is the number of constraints that were looked at.   *)
RECURSIVE CheckConstraints(_, _, _, _)
CheckConstraints(mctx, cs, nv, i) ==
    IF i > Len(cs) THEN [ok |-> TRUE, checked |-> Len(cs)]
    ELSE Val([r \in {tmp_is_def_eq(mctx, instantiate_rev(cs[i][1], nv),
                                         instantiate_rev(cs[i][2], nv))} |->
             IF r.ok THEN CheckConstraints(r.mctx, cs, nv, i + 1)
             ELSE [ok |-> FALSE, checked |-> i]])

MatchPattern(h, e1, e2) ==
    Val([r \in {ctx_is_def_eq(TmpCtx(h.m_num_vars), e1,
                              instantiate_rev(h.m_lhs, h.m_num_vars))} |->
        IF ~r.ok THEN r
        ELSE ctx_is_def_eq(r.mctx, e2, instantiate_rev(h.m_rhs, h.m_num_vars))])

try_unification_hint(h, e1, e2) ==
    Val([m \in {MatchPattern(h, e1, e2)} |->
        IF ~m.ok THEN [ok |-> FALSE, matched |-> FALSE, checked |-> 0]
        ELSE Val([c \in {CheckConstraints(m.mctx, h.m_constraints,
                                          h.m_num_vars, 1)} |->
                 [ok |-> c.ok, matched |-> TRUE, checked |-> c.checked]])])

TryEitherWay(h, e1, e2) ==
    Val([r \in {try_unification_hint(h, e1, e2)} |->
        IF r.ok THEN r
        ELSE Val([r2 \in {try_unification_hint(h, e2, e1)} |->
                 IF r2.ok \/ ~r.matched THEN r2 ELSE r])])

RECURSIVE TryHints(_, _, _, _, _)
TryHints(buf, e1, e2, i, tried) ==
    IF i > Len(buf) THEN [ok |-> FALSE, tried |-> tried]
    ELSE Val([r \in {TryEitherWay(buf[i].v, e1, e2)} |->
             IF r.ok
             THEN [ok |-> TRUE,
                   tried |-> Append(tried, [hint |-> buf[i].v, prio |-> buf[i].prio,
                                            pos |-> buf[i].pos,
                                            matched |-> TRUE, ok |-> TRUE,
                                            checked |-> r.checked])]
             ELSE TryHints(buf, e1, e2, i + 1,
                           Append(tried, [hint |-> buf[i].v, prio |-> buf[i].prio,
                                          pos |-> buf[i].pos,
                                          matched |-> r.matched, ok |-> FALSE,
                                          checked |-> r.checked]))])

try_unification_hints(m_hints, e1, e2) ==
    IF is_constant(get_app_fn(e1)) /\ is_constant(get_app_fn(e2))
    THEN TryHints(get_unification_hints(m_hints, e1.c, e2.c), e1, e2, 1, <<>>)
    ELSE [ok |-> FALSE, tried |-> <<>>]

(***************************************************************************)
(* Discrimination trees (class blast::discr_tree).  A tree is the set of  *)
(* its nodes, each named by the edges that lead to it from the root, with *)
(* the values the node holds; NoNode is the tree without a root.  A key   *)
(* is indexed by the edges of its relevant sub-terms in pre-order: a      *)
(* metavariable is the Star edge, a lambda the Unsupported edge, and      *)
(* nothing below either is looked at.                                     *)
(***************************************************************************)
NoNode == [present |-> FALSE]

Star        == [kind |-> "Star", name |-> ""]
Unsupported == [kind |-> "Unsupported", name |-> ""]
LocalNames  == {"x"}
EdgeOf(t) ==
    IF is_metavar(t) THEN Star
    ELSE IF t.c = "lam" THEN Unsupported
    ELSE IF t.c \in LocalNames THEN [kind |-> "Local", name |-> t.c]
    ELSE [kind |-> "Constant", name |-> t.c]

(* The relevance oracle: the second argument of h is an instance.         *)
is_indexable(t, i) == ~(t.c = "h" /\ i = 2)

RECURSIVE RelevantArgs(_, _)
RelevantArgs(t, i) ==
    IF i > Len(t.args) THEN <<>>
    ELSE (IF is_indexable(t, i) THEN <<t.args[i]>> ELSE <<>>)
         \o RelevantArgs(t, i + 1)

Children(t) ==
    IF EdgeOf(t).kind \in {"Star", "Unsupported"} THEN <<>>
    ELSE RelevantArgs(t, 1)

RECURSIVE EdgePath(_)
EdgePath(todo) ==
    IF todo = <<>> THEN <<>>
    ELSE <<EdgeOf(Head(todo))>> \o EdgePath(Children(Head(todo)) \o Tail(todo))

Prefixes(path) == { SubSeq(path, 1, n) : n \in 0..Len(path) }

NodesOf(n) == IF n.present THEN n.nodes ELSE <<>>

discr_tree_insert(n, k, v) ==
    Val([path \in {EdgePath(<<k>>)} |->
        [present |-> TRUE,
         nodes   |-> [p \in DOMAIN NodesOf(n) \cup Prefixes(path) |->
                        (IF n.present /\ p \in DOMAIN n.nodes
                         THEN n.nodes[p] ELSE {})
                        \cup (IF p = path THEN {v} ELSE {})]]])

(* The nodes that hold a value or lead to one.                            *)
Live(nodes) ==
    { p \in DOMAIN nodes :
        \E q \in DOMAIN nodes : nodes[q] # {} /\ p \in Prefixes(q) }

(* erase that leaves the tree as it was.                                  *)
discr_tree_erase_nothing(n, k, v) == n

discr_tree_erase(n, k, v) ==
    IF ~n.present THEN n
    ELSE Val([path \in {EdgePath(<<k>>)} |->
         Val([nodes \in {[p \in DOMAIN n.nodes |->
                            IF p = path THEN n.nodes[p] \ {v}
                            ELSE n.nodes[p]]} |->
             IF Live(nodes) = {} THEN NoNode
             ELSE [present |-> TRUE,
                   nodes   |-> [p \in Live(nodes) |-> nodes[p]]]])])

(* find that follows the edge of the query only.                          *)
RECURSIVE FindExact(_, _, _)
FindExact(nodes, path, todo) ==
    IF todo = <<>> THEN nodes[path]
    ELSE IF Append(path, EdgeOf(Head(todo))) \in DOMAIN nodes
    THEN FindExact(nodes, Append(path, EdgeOf(Head(todo))),
                   Children(Head(todo)) \o Tail(todo))
    ELSE {}

RECURSIVE Find(_, _, _)
Find(nodes, path, todo) ==
    IF todo = <<>> THEN nodes[path]
    ELSE (IF Append(path, Star) \in DOMAIN nodes
          THEN Find(nodes, Append(path, Star), Tail(todo))
          ELSE {})
         \cup
         (IF EdgeOf(Head(todo)) # Star
             /\ Append(path, EdgeOf(Head(todo))) \in DOMAIN nodes
          THEN Find(nodes, Append(path, EdgeOf(Head(todo))),
                    Children(Head(todo)) \o Tail(todo))
          ELSE {})

discr_tree_collect(n, e) ==
    IF ~n.present THEN {} ELSE Find(n.nodes, <<>>, <<e>>)

VARIABLES elab, saved, last, tc, arrival, hints, m_root

vars == <<elab, saved, last, tc, arrival, hints, m_root>>

MaxInfo  == 1   \* identifier-info entries
MaxSorts == 1   \* deferred sort checks

Bounded(e) ==
    /\ Len(e.m_instances) <= MaxPending
    /\ Len(e.m_numeral_types) <= MaxPending
    /\ Len(e.m_tactics) <= MaxPending
    /\ Len(e.m_inaccessible_stack) <= MaxPending
    /\ e.reported <= MaxMsgs
    /\ e.m_info <= MaxInfo
    /\ e.m_to_check_sorts <= MaxSorts

RECURSIVE Replay(_, _, _)
Replay(arr, trace, i) ==
    IF i > Len(trace) THEN arr
    ELSE LET ev == trace[i]
         IN  Replay(CASE ev.ev = "q_num"   -> [arr EXCEPT !.num = Append(@, ev.m)]
                      [] ev.ev = "clr_num" -> [arr EXCEPT !.num = <<>>]
                      [] ev.ev = "q_inst"  -> [arr EXCEPT !.inst = Append(@, ev.m)]
                      [] ev.ev = "q_tac"   -> [arr EXCEPT !.tac = Append(@, ev.m)]
                      [] ev.ev = "clr_tac" -> [arr EXCEPT !.tac = <<>>]
                      [] OTHER             -> arr,
                    trace, i + 1)

InSeq(x, q) == \E k \in DOMAIN q : q[k] = x

(* The arrival orders after an operation that ended in session e.         *)
Arrive(arr, e) ==
    LET a == Replay(arr, e.trace, 1)
    IN  [a EXCEPT !.inst = SelectSeq(@, LAMBDA m : InSeq(m, e.m_instances))]

NoArrivals == [num |-> <<>>, inst |-> <<>>, tac |-> <<>>]

Room(e, n) == Cardinality(FreeIds(e.mctx)) >= n
Begin(e)   == [e EXCEPT !.trace = <<>>]
Idle       == [pc |-> "idle", rounds |-> 0, len0 |-> 0]

(* What the tactic engine answers for the tactic blocks of the inputs.    *)
Tacs == << Tac("ok", T0("n1"), {}), Tac("fail", NoTerm, {}),
           Tac("throw", NoTerm, {}), Tac("ok", T0("n1"), {"tac_d"}) >>

(* The constructor arguments and the modes the caller sets:               *)
(* <<recover_from_errors, position provider, in_pattern, in_quote>>.      *)
InitModes == { <<TRUE, TRUE, FALSE, FALSE>>, <<FALSE, TRUE, FALSE, FALSE>>,
               <<TRUE, TRUE, TRUE, TRUE>> }

NoSnapshot == [taken |-> FALSE]

Init ==
    /\ elab \in { NewElab(m[1], m[2], m[3], m[4]) : m \in InitModes }
    /\ saved = NoSnapshot
    /\ last = [op |-> "new", exc |-> "none"]
    /\ tc = Idle
    /\ arrival = NoArrivals
    /\ hints = NoHints
    /\ m_root = NoNode

TypeMvars(e) ==
    { m \in Ids : e.mctx.decl[m] = T0("Type") /\ ~is_assigned(e.mctx, m) }

Finish(op, r) ==
    /\ Bounded(r.st)
    /\ elab' = r.st
    /\ last' = [op |-> op, exc |-> r.exc]
    /\ arrival' = Arrive(arrival, r.st)

MkTypeMetavar ==
    /\ tc.pc = "idle" /\ Room(elab, 1)
    /\ Finish("mk_type_metavar", mk_type_metavar(Begin(elab)))
    /\ UNCHANGED <<saved, tc, hints, m_root>>

VisitPrenum ==
    /\ tc.pc = "idle" /\ Room(elab, 3)
    /\ \E ty \in {NoTerm, T0("bool")} \cup { MVar(m) : m \in TypeMvars(elab) } :
          Finish("visit_prenum", visit(Begin(elab), SNum(1), ty))
    /\ UNCHANGED <<saved, tc, hints, m_root>>

VisitBy ==
    /\ tc.pc = "idle" /\ Room(elab, 2)
    /\ \E i \in 1..3 :
          Finish("visit_by", visit(Begin(elab), SBy(Tacs[i]), T0("nat")))
    /\ UNCHANGED <<saved, tc, hints, m_root>>

InstClasses(e) ==
    {T1("has_one", T0("bool"))}
    \cup { T1("dep", MVar(m)) : m \in TypeMvars(e) }
    \cup { T2("outc", MVar(m), MVar(n)) :
              <<m, n>> \in { p \in TypeMvars(e) \X TypeMvars(e) : p[1] < p[2] } }
    \cup { T2("outc", T0("nat"), MVar(m)) : m \in TypeMvars(e) }

MkInstance ==
    /\ tc.pc = "idle" /\ Room(elab, 1)
    /\ \E C \in InstClasses(elab) :
          Finish("mk_instance", mk_instance(Begin(elab), C))
    /\ UNCHANGED <<saved, tc, hints, m_root>>

(* An application whose instance argument the second pass reaches before *)
(* the explicit argument that fixes its type.                             *)
VisitInstApp ==
    /\ tc.pc = "idle" /\ Room(elab, 3)
    /\ \E arg \in {SAsIs(T0("n0")), SSort} :
       \E ty \in {T0("nat")} \cup { MVar(m) : m \in TypeMvars(elab) } :
          LET f == visit_function(Begin(elab), FnHead("h_inst", 0), TRUE)
          IN  /\ f.exc = "none"
              /\ Finish("visit_base_app_core",
                        visit_base_app_core(f.st, f.val, <<arg>>, FALSE, ty))
    /\ UNCHANGED <<saved, tc, hints, m_root>>

IsDefEq ==
    /\ tc.pc = "idle"
    /\ \E m \in { i \in Ids : IsDeclared(elab.mctx, i) } :
       \E t \in {T0("nat"), T0("n0")} :
          LET q == is_def_eq(Begin(elab), MVar(m), t)
          IN  Finish("is_def_eq", [st |-> q.st,
                                   exc |-> IF q.ok THEN "none" ELSE "no"])
    /\ UNCHANGED <<saved, tc, hints, m_root>>

EnsureNoUnassigned ==
    /\ tc.pc = "idle" /\ Room(elab, 0)
    /\ \E m \in { i \in Ids : IsDeclared(elab.mctx, i) } :
          Finish("ensure_no_unassigned_metavars",
                 ensure_no_unassigned_metavars(
                     Begin(elab), instantiate_mvars(elab, MVar(m))))
    /\ UNCHANGED <<saved, tc, hints, m_root>>

(* synthesize(), one action per step: the numeral types and the entry to  *)
(* the loop; one scan of the loop; the tactic blocks.                     *)
SynthBegin ==
    /\ tc.pc = "idle"
    /\ LET r == synthesize_numeral_types(Begin(elab))
       IN  /\ Finish("synthesize_numeral_types", r)
           /\ tc' = IF r.exc # "none" THEN Idle
                    ELSE [pc |-> "tc", rounds |-> 0,
                          len0 |-> Len(r.st.m_instances)]
    /\ UNCHANGED <<saved, hints, m_root>>

TcScan ==
    /\ tc.pc = "tc"
    /\ LET r == synthesize_type_class_instances_step(Begin(elab))
       IN  /\ Finish("synthesize_type_class_instances_step", r)
           /\ tc' = IF r.exc # "none" THEN Idle
                    ELSE IF ~r.changed THEN [tc EXCEPT !.pc = "tactics"]
                    ELSE [tc EXCEPT !.rounds = @ + 1]
    /\ UNCHANGED <<saved, hints, m_root>>

SynthTactics ==
    /\ tc.pc = "tactics"
    /\ Finish("synthesize_using_tactics", synthesize_using_tactics(Begin(elab)))
    /\ tc' = Idle
    /\ UNCHANGED <<saved, hints, m_root>>

TakeSnapshot ==
    /\ tc.pc = "idle" /\ ~saved.taken
    /\ saved' = [taken |-> TRUE, S |-> snapshot(elab), src |-> elab,
                 arrival |-> arrival]
    /\ last' = [op |-> "snapshot", exc |-> "none"]
    /\ UNCHANGED <<elab, tc, arrival, hints, m_root>>

Restore ==
    /\ tc.pc = "idle" /\ saved.taken
    /\ elab' = restore(saved.S, Begin(elab))
    /\ last' = [op |-> "restore", exc |-> "none",
                differs |-> [f \in DOMAIN saved.S |->
                                snapshot(elab)[f] # saved.S[f]]]
    /\ arrival' = saved.arrival
    /\ UNCHANGED <<saved, tc, hints, m_root>>

(* The session operations on metavariables and the three worklists.      *)
Next ==
    \/ MkTypeMetavar
    \/ VisitPrenum
    \/ VisitBy
    \/ MkInstance
    \/ VisitInstApp
    \/ IsDefEq
    \/ EnsureNoUnassigned
    \/ SynthBegin
    \/ TcScan
    \/ SynthTactics

Spec == Init /\ [][Next]_vars

VisitInaccessible ==
    /\ tc.pc = "idle" /\ Room(elab, 2)
    /\ Finish("visit_inaccessible",
              visit(Begin(elab), SInacc(SAsIs(T0("n0"))), T0("nat")))
    /\ UNCHANGED <<saved, tc, hints, m_root>>

(* The same session with a caller that takes and restores a snapshot.     *)
NextSnapshot ==
    \/ TakeSnapshot
    \/ VisitInaccessible
    \/ Restore
    \/ VisitPrenum
    \/ VisitBy
    \/ MkInstance
    \/ IsDefEq
    \/ SynthBegin
    \/ TcScan
    \/ SynthTactics

SpecSnapshot == Init /\ [][NextSnapshot]_vars

(***************************************************************************)
(* Applications.  An input is a list of head candidates and a list of     *)
(* arguments, elaborated against an expected type (NoTerm: none).  last   *)
(* keeps the input, the session the operation started from (pre) and the  *)
(* result record of the operation (res).                                  *)
(***************************************************************************)
N0 == SAsIs(T0("n0"))

OverloadedApps ==
    { SApp(<<FnHead("f_nat", 0), FnHead("f_int", 0)>>, <<N0>>),
      SApp(<<FnHead("f_nat", 0), FnHead("id", 0)>>, <<N0>>),
      SApp(<<FnHead("f_bool", 0), FnHead("f_nat", 0)>>, <<N0>>),
      SApp(<<FnHead("f_bool", 2), FnHead("f_nat", 0)>>, <<N0>>),
      SApp(<<FnHead("f_bool", 0), FnHead("h_inst", 0)>>, <<SAsIs(T0("tt"))>>),
      SApp(<<FnHead("a_auto", 0), FnHead("g_auto", 0)>>, <<N0>>),
      SApp(<<FnHead("g_auto", 0), FnHead("a_auto", 0)>>, <<N0>>),
      SApp(<<FnHead("f_nat", 0), FnHead("f_int", 0)>>, <<SNum(1)>>) }

BaseApps ==
    { SApp(<<FnHead("f_nat", 0)>>, <<N0>>),
      SApp(<<FnHead("f_bool", 0)>>, <<N0>>),
      SApp(<<FnHead("id", 0)>>, <<N0>>),
      SApp(<<FnHead("h_inst", 0)>>, <<N0>>),
      SApp(<<FnHead("id", 0)>>, <<SNum(1)>>),
      SApp(<<FnHead("p_dep", 0)>>, <<SBy(Tacs[1])>>),
      SApp(<<FnHead("a_auto", 0)>>, <<N0>>) }

ExpectedTypes == {T0("nat"), T0("int")}

FinishApp(op, a, ty, r) ==
    /\ Bounded(r.st)
    /\ elab' = r.st
    /\ last' = [op |-> op, exc |-> r.exc, app |-> a, ty |-> ty,
                pre |-> Begin(elab), res |-> r]
    /\ arrival' = Arrive(arrival, r.st)
    /\ UNCHANGED <<saved, tc, hints, m_root>>

QueueTactic ==
    /\ Room(elab, 1)
    /\ elab.m_tactics = <<>>
    /\ \E i \in {1, 2, 4} :
          Finish("visit_by", visit(Begin(elab), SBy(Tacs[i]), T0("nat")))
    /\ UNCHANGED <<saved, tc, hints, m_root>>

VisitBaseApp ==
    /\ Room(elab, 3)
    /\ \E a \in BaseApps : \E ty \in ExpectedTypes \cup {NoTerm, T1("vec", T0("n0"))} :
          LET f == visit_function(Begin(elab), a.fns[1], a.args # <<>>)
          IN  /\ f.exc = "none"
              /\ FinishApp("visit_base_app_core", a, ty,
                           visit_base_app_core(f.st, f.val, a.args, FALSE, ty))

VisitOverloadedCore ==
    /\ Room(elab, 3)
    /\ \E a \in OverloadedApps : \E ty \in ExpectedTypes \cup {NoTerm} :
          FinishApp("visit_overloaded_app_core", a, ty,
                    visit_overloaded_app_core(Begin(elab), a.fns, a.args, ty))

VisitOverloadedExpected ==
    /\ Room(elab, 3)
    /\ \E a \in OverloadedApps : \E ty \in ExpectedTypes :
          FinishApp("visit_overloaded_app_with_expected", a, ty,
                    visit_overloaded_app_with_expected(Begin(elab), a.fns,
                                                       a.args, ty))

NextApp ==
    \/ QueueTactic
    \/ VisitBaseApp
    \/ VisitOverloadedCore
    \/ VisitOverloadedExpected

SpecApp == Init /\ [][NextApp]_vars

(***************************************************************************)
(* Properties of overload resolution, checked under SpecApp.              *)
(***************************************************************************)
Positions(cs) == [k \in DOMAIN cs |-> cs[k].fn]

(* The outcome of visit_overloaded_app_core for N head candidates.        *)
CoreOutcome(r, N) ==
    /\ Len(r.candidates) + Len(r.error_msgs) = N
    /\ \A i \in 1..N : InSeq(i, Positions(r.candidates)) # InSeq(i, r.error_msgs)
    /\ Len(r.candidates) = 0 =>
          /\ r.outcome = "none" /\ r.exc = "elab"
          /\ r.reasons = [i \in 1..N |-> i]
    /\ Len(r.candidates) = 1 =>
          /\ r.outcome = "unique" /\ r.exc = "none"
          /\ r.val = r.candidates[1].val
          /\ snapshot(r.st) = r.candidates[1].snap
    /\ Len(r.candidates) > 1 =>
          /\ r.outcome = "ambiguous" /\ r.exc = "elab"
          /\ r.listed = Positions(r.candidates)
          /\ snapshot(r.st) = r.S

(* C1: overload resolution over N head candidates puts every candidate in *)
(* exactly one of the successes and the failures; with no success it      *)
(* raises an error with one reason per candidate, with one success it     *)
(* restores that candidate's snapshot and returns its term, and with two  *)
(* or more it raises an ambiguity error that lists every success and      *)
(* commits none (the session is back at the starting snapshot).           *)
C1_OverloadOutcome ==
    (last.op = "visit_overloaded_app_core" /\ last.res.outcome # "raised")
        => CoreOutcome(last.res, Len(last.app.fns))

C1_Witness ==
    /\ last.op = "visit_overloaded_app_core"
    /\ last.res.outcome = "ambiguous"
    /\ Len(last.res.candidates) = 2
    /\ last.pre.m_tactics # <<>>
    /\ last.res.candidates[1].snap # last.res.S

Swap(fns) == <<fns[2], fns[1]>>
ElaboratesAlone(e, fn, args, ty) ==
    visit_overloaded_app(e, <<fn>>, args, ty).exc = "none"
Pending(e) == <<e.m_instances, e.m_numeral_types, e.m_tactics>>

(* C2: for two candidates of which exactly one elaborates successfully    *)
(* against a fixed expected type, visit_overloaded_app gives the same     *)
(* term (or error), metavariable context and pending worklists for the    *)
(* candidate list in either order.                                        *)
C2_OrderIndependent ==
    (/\ last.op = "visit_overloaded_app_with_expected"
     /\ Len(last.app.fns) = 2
     /\ ElaboratesAlone(last.pre, last.app.fns[1], last.app.args, last.ty)
          # ElaboratesAlone(last.pre, last.app.fns[2], last.app.args, last.ty))
    => LET sw == visit_overloaded_app(last.pre, Swap(last.app.fns),
                                      last.app.args, last.ty)
       IN  /\ sw.exc = last.res.exc
           /\ sw.val = last.res.val
           /\ sw.st.mctx = last.res.st.mctx
           /\ Pending(sw.st) = Pending(last.res.st)

(* The session state that a snapshot does not hold.                       *)
Untracked(e) ==
    [m_has_errors |-> e.m_has_errors, m_env |-> e.m_env,
     m_to_check_sorts |-> e.m_to_check_sorts, reported |-> e.reported]

(* C4: when overload resolution commits a candidate, the error flag, the  *)
(* environment, the deferred sort checks and the diagnostics reported     *)
(* are those of elaborating the committed candidate alone: the discarded  *)
(* candidates leave no trace.                                             *)
C4_NoTraceOfDiscarded ==
    /\ (last.op = "visit_overloaded_app_with_expected"
        /\ last.res.route = "second_pass" /\ last.res.exc = "none")
       => Untracked(last.res.st) =
            Untracked(visit_overloaded_app_with_expected(
                          last.pre, <<last.app.fns[last.res.candidates[1].fn]>>,
                          last.app.args, last.ty).st)
    /\ (last.op = "visit_overloaded_app_core" /\ last.res.outcome = "unique")
       => Untracked(last.res.st) =
            Untracked(visit_overloaded_app_core(
                          last.pre, <<last.app.fns[last.res.candidates[1].fn]>>,
                          last.app.args, last.ty).st)

Result(r) == [st |-> r.st, exc |-> r.exc, val |-> r.val]

(* C5: in visit_overloaded_app_with_expected the candidate's snapshot is  *)
(* restored and its second pass run only when exactly one candidate       *)
(* passed the first pass; with none or several the session is restored    *)
(* to the snapshot taken on entry and basic resolution is run, and what   *)
(* the call returns or raises is what basic resolution returned or        *)
(* raised, its term having the expected type.                             *)
C5_RetryByBasicResolution ==
    (last.op = "visit_overloaded_app_with_expected" /\ last.res.route # "raised")
    => LET r == last.res
       IN  /\ r.S = snapshot(r.entry)
           /\ (r.route = "second_pass") <=> (Len(r.candidates) = 1)
           /\ Len(r.candidates) # 1 =>
                 /\ r.route = "core"
                 /\ snapshot(r.retry_from) = r.S
                 /\ r.core = visit_overloaded_app_core(
                                 r.retry_from, last.app.fns, last.app.args, last.ty)
                 /\ Result(r) = Result(r.core)
                 /\ r.exc = "none" =>
                       instantiate_mvars(r.st, infer_type(r.st, r.val)) = last.ty
           /\ Len(r.candidates) = 1 =>
                 /\ r.core.outcome = "not_run"
                 /\ Result(r) =
                       second_pass(restore(r.candidates[1].snap, r.after_trials),
                                   r.candidates[1].val, last.app.args,
                                   r.candidates[1].info)

C5_Witness ==
    /\ last.op = "visit_overloaded_app_with_expected"
    /\ last.res.route = "core"
    /\ Len(last.res.candidates) > 1
    /\ snapshot(last.res.after_trials) # last.res.S
    /\ last.res.core.outcome = "ambiguous"

(* C6: when the first pass of visit_base_app_core raises an elaboration   *)
(* error, the session is restored to the snapshot taken before the first  *)
(* pass, visit_base_app_simple is run from there on the same head and     *)
(* arguments, and an error of the fallback is raised with the first-pass  *)
(* error as its context.                                                  *)
C6_TwoPassFallback ==
    last.op = "visit_base_app_core"
    => LET f  == visit_function(last.pre, last.app.fns[1], last.app.args # <<>>)
           fp == first_pass([f.st EXCEPT !.m_recover_from_errors = FALSE],
                            f.val, last.app.args, last.ty)
           r  == last.res
       IN  /\ (r.path = "fallback") <=>
                 (/\ is_with_expected_candidate(f.val) /\ last.ty # NoTerm
                  /\ fp.exc = "elab")
           /\ r.path = "fallback" =>
                 /\ snapshot(r.fallback) = snapshot(f.st)
                 /\ Result(r) = visit_base_app_simple(r.fallback, f.val,
                                    last.app.args, FALSE, last.ty)
                 /\ r.exc = "elab" => r.nested

C6_Witness ==
    /\ last.op = "visit_base_app_core"
    /\ last.res.path = "fallback"
    /\ last.res.exc = "none"
    /\ LET f  == visit_function(last.pre, last.app.fns[1], last.app.args # <<>>)
           fp == first_pass([f.st EXCEPT !.m_recover_from_errors = FALSE],
                            f.val, last.app.args, last.ty)
       IN  snapshot(fp.st) # snapshot(f.st)

(***************************************************************************)
(* Properties of snapshots, checked under SpecSnapshot.                   *)
(***************************************************************************)

(* C3: after snapshot::restore the metavariable context, the pending      *)
(* instances, numeral types and tactic blocks and the inaccessible stack  *)
(* are those of the session the snapshot was taken of, whatever ran in    *)
(* between and however often it is restored; the snapshot a caller holds  *)
(* stays the copy of that session.                                        *)
C3_SnapshotRoundTrip ==
    /\ saved.taken => saved.S = snapshot(saved.src)
    /\ last.op = "restore" =>
          /\ elab.mctx                 = saved.src.mctx
          /\ elab.m_instances          = saved.src.m_instances
          /\ elab.m_numeral_types      = saved.src.m_numeral_types
          /\ elab.m_tactics            = saved.src.m_tactics
          /\ elab.m_inaccessible_stack = saved.src.m_inaccessible_stack

C3_Witness ==
    /\ last.op = "restore"
    /\ last.differs.m_saved_mctx
    /\ last.differs.m_saved_numeral_types
    /\ last.differs.m_saved_tactics
    /\ saved.src.m_tactics # <<>>

(***************************************************************************)
(* Properties of the worklists, checked under Spec.                       *)
(***************************************************************************)

(* C7: the loop of synthesize_type_class_instances terminates: a scan     *)
(* that finds no ready instance leaves the pending list as it is and      *)
(* ends the loop, the loop ends at no other scan that ran to its end,    *)
(* every scan after which the loop goes on has strictly                   *)
(* shortened the list, no scan lengthens it, and the number of scans      *)
(* that synthesized something plus the length of the list never exceeds   *)
(* the length N the list had when the loop was entered (so a chain of N   *)
(* instances is resolved in at most N rounds).                            *)
C7_LoopProgress ==
    [][ tc.pc = "tc" =>
           /\ Len(elab'.m_instances) <= Len(elab.m_instances)
           /\ ScanProcess(elab) = <<>> =>
                 /\ tc'.pc = "tactics"
                 /\ tc'.rounds = tc.rounds
                 /\ elab'.m_instances = elab.m_instances
           /\ tc'.pc = "tactics" => ScanProcess(elab) = <<>>
           /\ tc'.pc = "tc" =>
                 /\ tc'.rounds = tc.rounds + 1
                 /\ Len(elab'.m_instances) < Len(elab.m_instances)
           /\ tc'.pc # "idle" =>
                 tc'.rounds + Len(elab'.m_instances) <= tc.len0 ]_vars

C7_Witness ==
    /\ tc.pc = "tactics"
    /\ tc.len0 = 2
    /\ tc.rounds = 2
    /\ elab.m_instances = <<>>

(* The events of the last operation: every search ran on a ready type;   *)
(* a core call on a type that is not ready answered false without        *)
(* searching, and its caller put the metavariable on the pending list.    *)
SearchOnlyReady(e) ==
    \A i \in DOMAIN e.trace : e.trace[i].ev = "search" => e.trace[i].ok
CoreDeclines(e) ==
    \A i \in DOMAIN e.trace :
        (e.trace[i].ev = "core" /\ ~e.trace[i].ok) =>
            /\ i < Len(e.trace)
            /\ e.trace[i + 1] = Event("q_inst", e.trace[i].m, FALSE)
(* mk_instance on a type that is not ready queues a new metavariable.     *)
AskDefers(e) ==
    \A i \in DOMAIN e.trace :
        (e.trace[i].ev = "ask" /\ ~e.trace[i].ok) =>
            /\ i < Len(e.trace)
            /\ e.trace[i + 1].ev = "q_inst"
(* The same outside a quoted pattern; inside one mk_instance neither      *)
(* queues nor searches.                                                   *)
AskDefersOutsideQuote(e) ==
    \A i \in DOMAIN e.trace :
        (e.trace[i].ev = "ask" /\ ~e.trace[i].ok) =>
            IF e.m_in_pattern /\ e.m_in_quote
            THEN i = Len(e.trace) \/ e.trace[i + 1].ev \notin {"q_inst", "search"}
            ELSE i < Len(e.trace) /\ e.trace[i + 1].ev = "q_inst"
(* A scan of the worklist leaves every instance that is not ready at the  *)
(* scan on the pending list and runs nothing for it.                      *)
ScanKeepsNotReady ==
    tc.pc = "tc" =>
       \A k \in DOMAIN elab.m_instances :
           ~ready_to_synthesize(ScanType(elab, elab.m_instances[k])) =>
               /\ InSeq(elab.m_instances[k], elab'.m_instances)
               /\ \A i \in DOMAIN elab'.trace :
                      elab'.trace[i].m # elab.m_instances[k]

(* C8: class-instance search runs only on a ready instantiated type:      *)
(* every search of an operation is on a ready type, mk_instance queues a  *)
(* type that is not ready instead of searching (in a quoted pattern it    *)
(* returns a placeholder and neither queues nor searches), the scan keeps *)
(* every instance that is not ready, and                                  *)
(* try_synthesize_type_class_instance answers false without searching.    *)
C8_SearchOnlyWhenReady ==
    [][ /\ SearchOnlyReady(elab')
        /\ CoreDeclines(elab')
        /\ AskDefersOutsideQuote(elab')
        /\ ScanKeepsNotReady ]_vars

(* C8 as stated: mk_instance queues every type that is not ready.         *)
C8_AlwaysDefers ==
    [][ /\ SearchOnlyReady(elab')
        /\ CoreDeclines(elab')
        /\ AskDefers(elab')
        /\ ScanKeepsNotReady ]_vars

(* A scan that searched for a ready instance and kept another one.        *)
C8_Witness ==
    /\ last.op = "synthesize_type_class_instances_step"
    /\ tc.pc = "tc"
    /\ elab.m_instances # <<>>
    /\ \E i \in DOMAIN elab.trace : elab.trace[i].ev = "search"

(* The entries a drain handled, in the order it handled them, and the     *)
(* order in which the pending entries were queued (arrival).              *)
Handled(e, kind) ==
    [k \in 1..Cardinality({ i \in DOMAIN e.trace : e.trace[i].ev = kind }) |->
        e.trace[CHOOSE i \in DOMAIN e.trace :
                   /\ e.trace[i].ev = kind
                   /\ Cardinality({ j \in 1..i : e.trace[j].ev = kind }) = k].m]
Pos(q, x) == CHOOSE k \in DOMAIN q : q[k] = x
PrefixOf(P, q) == Len(P) <= Len(q) /\ \A k \in DOMAIN P : P[k] = q[k]
InOrderOf(P, q) ==
    \A i, j \in DOMAIN P :
        i < j => InSeq(P[i], q) /\ InSeq(P[j], q) /\ Pos(q, P[i]) < Pos(q, P[j])

NumeralsFifo ==
    last'.op = "synthesize_numeral_types" =>
        PrefixOf(Handled(elab', "num"), arrival.num)
InstancesFifo ==
    last'.op = "synthesize_type_class_instances_step" =>
        InOrderOf(Handled(elab', "core"), arrival.inst)
TacticsFifo ==
    last'.op = "synthesize_using_tactics" =>
        PrefixOf(Handled(elab', "tac"), arrival.tac)

(* C9: each of the three worklists is drained first in, first out: a      *)
(* drain handles the pending entries in the order they were queued.       *)
C9_Fifo == [][NumeralsFifo /\ InstancesFifo /\ TacticsFifo]_vars

(* C10: assignments are single-assignment: no operation of the session    *)
(* replaces the value of a metavariable that already has one.             *)
C10_SingleAssignment ==
    [][ \A m \in Ids :
           is_assigned(elab.mctx, m) => elab'.mctx.asg[m] = elab.mctx.asg[m] ]_vars

(***************************************************************************)
(* The drains of the numeral types and of the tactic blocks, on sessions  *)
(* whose metavariables have types of two universes and whose tactic       *)
(* blocks are elaborated with and without an expected type.               *)
(***************************************************************************)
(* The answers of the tactic engine: the last one is a result in which    *)
(* the metavariable ?1 of the session occurs.                             *)
DrainTacs == << Tac("ok", T0("n1"), {}), Tac("fail", NoTerm, {}),
                Tac("throw", NoTerm, {}), Tac("ok", MVar(1), {}) >>

SortMvars(e) ==
    { m \in Ids : /\ e.mctx.decl[m] \in {T0("Type"), T0("Type1")}
                  /\ ~is_assigned(e.mctx, m) }

VisitHole ==
    /\ tc.pc = "idle" /\ Room(elab, 1)
    /\ Finish("visit_placeholder", visit(Begin(elab), SHole, T0("Type1")))
    /\ UNCHANGED <<saved, tc, hints, m_root>>

VisitPrenumAt ==
    /\ tc.pc = "idle" /\ Room(elab, 2)
    /\ \E ty \in {NoTerm} \cup { MVar(m) : m \in SortMvars(elab) } :
          Finish("visit_prenum", visit(Begin(elab), SNum(1), ty))
    /\ UNCHANGED <<saved, tc, hints, m_root>>

VisitByAt ==
    /\ tc.pc = "idle" /\ Room(elab, 2)
    /\ \E i \in DOMAIN DrainTacs :
       \E ty \in {NoTerm, T0("nat")} \cup { MVar(m) : m \in TypeMvars(elab) } :
          Finish("visit_by", visit(Begin(elab), SBy(DrainTacs[i]), ty))
    /\ UNCHANGED <<saved, tc, hints, m_root>>

NextDrain ==
    \/ MkTypeMetavar
    \/ VisitHole
    \/ VisitPrenumAt
    \/ VisitByAt
    \/ IsDefEq
    \/ SynthBegin
    \/ TcScan
    \/ SynthTactics

SpecDrain == Init /\ [][NextDrain]_vars

(***************************************************************************)
(* Properties of the drains, checked under SpecDrain.                     *)
(***************************************************************************)
ValueOf(e, m) == InstTerm(e.mctx, MVar(m))

(* C11: when synthesize_numeral_types returns, the pending list is empty, *)
(* every entry that was still an unassigned metavariable has the default  *)
(* type nat or an error was reported for it, and every entry that was     *)
(* already resolved has the value it had.                                 *)
C11_NumeralDefaulting ==
    [][ (last'.op = "synthesize_numeral_types" /\ last'.exc = "none") =>
           /\ elab'.m_numeral_types = <<>>
           /\ \A k \in DOMAIN elab.m_numeral_types :
                  IF is_metavar(ValueOf(elab, elab.m_numeral_types[k]))
                  THEN \/ ValueOf(elab', elab.m_numeral_types[k]) = T0("nat")
                       \/ /\ elab'.reported > elab.reported
                          /\ elab'.m_has_errors
                  ELSE ValueOf(elab', elab.m_numeral_types[k])
                          = ValueOf(elab, elab.m_numeral_types[k]) ]_vars

(* A drain that defaulted one numeral type and reported another one that  *)
(* cannot be nat.                                                          *)
C11_Witness ==
    /\ last.op = "synthesize_numeral_types" /\ last.exc = "none"
    /\ elab.reported > 0
    /\ \E i, j \in DOMAIN elab.trace :
          /\ elab.trace[i].ev = "num" /\ elab.trace[j].ev = "num"
          /\ elab.mctx.decl[elab.trace[i].m] = T0("Type")
          /\ elab.mctx.asg[elab.trace[i].m] = T0("nat")
          /\ elab.mctx.decl[elab.trace[j].m] = T0("Type1")
          /\ ~is_assigned(elab.mctx, elab.trace[j].m)

(* C12: when synthesize_using_tactics returns normally, the metavariable  *)
(* of every pair that was pending is assigned: the result of the tactic   *)
(* when it succeeded with a result free of metavariables, else a          *)
(* placeholder of the declared type with the error flag set; the list is  *)
(* empty; and the drain raises only when errors are not recovered.        *)
C12_TacticDrain ==
    [][ last'.op = "synthesize_using_tactics" =>
           /\ last'.exc = "none" =>
                 /\ elab'.m_tactics = <<>>
                 /\ \A k \in DOMAIN elab.m_tactics :
                        IF /\ elab.m_tactics[k].tac.res = "ok"
                           /\ ~has_expr_metavar(
                                  InstTerm(elab.mctx, elab.m_tactics[k].tac.val))
                        THEN elab'.mctx.asg[elab.m_tactics[k].mvar]
                                = InstTerm(elab.mctx, elab.m_tactics[k].tac.val)
                        ELSE /\ elab'.mctx.asg[elab.m_tactics[k].mvar]
                                  = T1("sorry",
                                       elab.mctx.decl[elab.m_tactics[k].mvar])
                             /\ elab'.m_has_errors
           /\ last'.exc # "none" =>
                 /\ ~elab.m_recover_from_errors
                 /\ \E k \in DOMAIN elab.m_tactics :
                        elab.m_tactics[k].tac.res # "fail" ]_vars

(* A drain of a failed tactic block.                                      *)
C12_Witness ==
    /\ last.op = "synthesize_using_tactics" /\ last.exc = "none"
    /\ elab.m_has_errors
    /\ \E i \in DOMAIN elab.trace :
          /\ elab.trace[i].ev = "tac"
          /\ elab.mctx.asg[elab.trace[i].m]
                = T1("sorry", elab.mctx.decl[elab.trace[i].m])

(* The pairs a drain ran whose tactic succeeded.                          *)
Succeeded(e) == { k \in DOMAIN e.m_tactics : e.m_tactics[k].tac.res = "ok" }

(* C13: a tactic result that still contains metavariables is rejected:    *)
(* after a successful run the block's metavariable holds either the       *)
(* instantiated result, in which no metavariable occurs, or a             *)
(* placeholder of its declared type, in which only the metavariables of   *)
(* that type occur; the rejected result is never the value.               *)
C13_ResultChecked ==
    [][ (last'.op = "synthesize_using_tactics" /\ last'.exc = "none") =>
           \A k \in Succeeded(elab) :
              /\ has_expr_metavar(InstTerm(elab.mctx, elab.m_tactics[k].tac.val)) =>
                    /\ elab'.mctx.asg[elab.m_tactics[k].mvar]
                          # InstTerm(elab.mctx, elab.m_tactics[k].tac.val)
                    /\ elab'.mctx.asg[elab.m_tactics[k].mvar]
                          = T1("sorry", elab.mctx.decl[elab.m_tactics[k].mvar])
              /\ elab'.mctx.asg[elab.m_tactics[k].mvar].c # "sorry" =>
                    Mvars(ValueOf(elab', elab.m_tactics[k].mvar)) = {}
              /\ Mvars(ValueOf(elab', elab.m_tactics[k].mvar))
                    \subseteq Mvars(InstTerm(elab'.mctx,
                                   elab.mctx.decl[elab.m_tactics[k].mvar])) ]_vars

(* C13 as stated: the value assigned after a successful run is free of    *)
(* unassigned metavariables, the placeholder included.                    *)
C13_ValueMetavarFree ==
    [][ (last'.op = "synthesize_using_tactics" /\ last'.exc = "none") =>
           \A k \in Succeeded(elab) :
              Mvars(ValueOf(elab', elab.m_tactics[k].mvar)) = {} ]_vars

(* A drain that replaced a result by a placeholder whose type is an       *)
(* unassigned metavariable.                                               *)
C13_Witness ==
    /\ last.op = "synthesize_using_tactics" /\ last.exc = "none"
    /\ elab.reported > 0
    /\ \E i \in DOMAIN elab.trace :
          /\ elab.trace[i].ev = "tac"
          /\ elab.mctx.asg[elab.trace[i].m]
                = T1("sorry", elab.mctx.decl[elab.trace[i].m])
          /\ is_metavar(InstTerm(elab.mctx, elab.mctx.decl[elab.trace[i].m]))

(***************************************************************************)
(* Coercion insertion.  The session is created with the coercions option  *)
(* on or off; ensure_has_type is called on a term with its inferred type  *)
(* and an expected type.  last records the call and its optional result.  *)
(***************************************************************************)
MaxCoeMvar == 2

CoeTerms(e) ==
    { <<T0("n0"), T0("nat")>>, <<T0("tt"), T0("bool")>>,
      <<T0("p0"), T0("Prop")>>, <<T0("p_undec"), T0("Prop")>>,
      <<T0("t0"), T1("tactic", T0("nat"))>> }
    \cup { <<T0("t1"), T1("solver", MVar(m))>> : m \in TypeMvars(e) }

CoeTypes(e) ==
    { T0("nat"), T0("int"), T0("bool"), T0("Prop"), T1("tactic", T0("nat")) }
    \cup { MVar(m) : m \in TypeMvars(e) }
    \cup { T1("solver", MVar(m)) : m \in TypeMvars(e) }
    \cup { T1("tactic", MVar(m)) : m \in TypeMvars(e) }

InitCoe ==
    /\ elab \in { [NewElab(m[1], m[2], m[3], m[4]) EXCEPT !.m_coercions = b] :
                     m \in InitModes, b \in BOOLEAN }
    /\ saved = NoSnapshot
    /\ last = [op |-> "new", exc |-> "none"]
    /\ tc = Idle
    /\ arrival = NoArrivals
    /\ hints = NoHints
    /\ m_root = NoNode

MkCoeMetavar ==
    /\ tc.pc = "idle" /\ Room(elab, MaxMvar - MaxCoeMvar + 1)
    /\ Finish("mk_type_metavar", mk_type_metavar(Begin(elab)))
    /\ UNCHANGED <<saved, tc, hints, m_root>>

EnsureHasType ==
    /\ tc.pc = "idle" /\ Room(elab, 1)
    /\ \E xt \in CoeTerms(elab) : \E type \in CoeTypes(elab) :
          LET r == ensure_has_type(Begin(elab), xt[1], xt[2], type)
          IN  /\ Bounded(r.st)
              /\ elab' = r.st
              /\ last' = [op |-> "ensure_has_type", exc |-> r.exc,
                          x |-> xt[1], e_type |-> xt[2], type |-> type,
                          some |-> r.some, val |-> r.val]
              /\ arrival' = Arrive(arrival, r.st)
    /\ UNCHANGED <<saved, tc, hints, m_root>>

NextCoe == MkCoeMetavar \/ IsDefEq \/ EnsureHasType

SpecCoe == InitCoe /\ [][NextCoe]_vars

Searches(e) ==
    { i \in DOMAIN e.trace : e.trace[i].ev \in {"coe_search", "search", "ask"} }

(* C14: ensure_has_type(e, T, T) returns exactly e, without a coercion    *)
(* search and without touching the assignments, with the coercions        *)
(* option on or off.                                                      *)
C14_CoercionReflexive ==
    [][ (last'.op = "ensure_has_type" /\ last'.e_type = last'.type) =>
           /\ last'.exc = "none"
           /\ last'.some
           /\ last'.val = last'.x
           /\ Searches(elab') = {}
           /\ elab'.mctx = elab.mctx ]_vars

(* A reflexive call on a type that holds a metavariable, coercions off.   *)
C14_Witness ==
    /\ last.op = "ensure_has_type" /\ last.e_type = last.type
    /\ has_expr_metavar(last.type)
    /\ ~elab.m_coercions
    /\ last.some /\ last.val = last.x

(* The call finds the two types different and the class search for the    *)
(* coercion it needs has no instance: the decidability of the             *)
(* proposition for Prop to bool, has_coe_t otherwise.                     *)
NoCoercionFound(e, x, e_type, type) ==
    /\ e.m_coercions
    /\ ~(e.m_in_pattern /\ e.m_in_quote)
    /\ ~ctx_is_def_eq(e.mctx, e_type, type).ok
    /\ ~has_expr_metavar(InstTerm(e.mctx, e_type))
    /\ ~has_expr_metavar(InstTerm(e.mctx, type))
    /\ IF InstTerm(e.mctx, e_type) = T0("Prop") /\ InstTerm(e.mctx, type) = T0("bool")
       THEN ~mk_class_instance_at(e.mctx, T1("decidable", x)).found
       ELSE ~mk_class_instance_at(e.mctx, T2("has_coe_t", e_type, type)).found

(* C15: when the two types differ and no coercion can be found,           *)
(* ensure_has_type answers "no coercion": it neither throws, nor reports  *)
(* a diagnostic, nor returns a coerced term.                              *)
C15_NoCoercionNeverRaises ==
    [][ (/\ last'.op = "ensure_has_type"
         /\ NoCoercionFound(elab, last'.x, last'.e_type, last'.type)) =>
           /\ last'.exc = "none"
           /\ ~last'.some
           /\ elab'.reported = elab.reported
           /\ elab'.m_has_errors = elab.m_has_errors ]_vars

Closed(e, t) == ~has_expr_metavar(InstTerm(e.mctx, t))

(* The monadic heuristic applies to m a ==> n ?b (or m ?a ==> n b): one   *)
(* type is closed, both are applications of closed monads, one argument   *)
(* is a metavariable and the arguments unify.                             *)
MonadApplies(e, e_type, type) ==
    LET et == InstTerm(e.mctx, e_type)
        ty == InstTerm(e.mctx, type)
    IN  /\ has_expr_metavar(et) # has_expr_metavar(ty)
        /\ is_app(et) /\ is_app(ty)
        /\ ~has_expr_metavar(app_fn(et)) /\ ~has_expr_metavar(app_fn(ty))
        /\ is_metavar(app_arg(et)) \/ is_metavar(app_arg(ty))
        /\ is_monad(app_fn(et)) /\ is_monad(app_fn(ty))
        /\ ctx_is_def_eq(e.mctx, app_arg(et), app_arg(ty)).ok

(* C25: when the two types are not definitionally equal, a coercion is    *)
(* searched for (Prop to bool, then by class search) whenever the         *)
(* coercions are enabled and both types are closed, and otherwise only    *)
(* if the monadic heuristic applies; with a metavariable in either type   *)
(* and the                                                                *)
(* heuristic not applicable the answer is "no coercion"; and with the     *)
(* coercions disabled the answer is always "no coercion".                 *)
C25_CoercionGating ==
    [][ (/\ last'.op = "ensure_has_type"
         /\ ~ctx_is_def_eq(elab.mctx, last'.e_type, last'.type).ok) =>
          /\ Searches(elab') # {} =>
                /\ elab.m_coercions
                /\ \/ Closed(elab, last'.e_type) /\ Closed(elab, last'.type)
                   \/ MonadApplies(elab, last'.e_type, last'.type)
          /\ (/\ elab.m_coercions
              /\ Closed(elab, last'.e_type) /\ Closed(elab, last'.type))
                => Searches(elab') # {}
          /\ (/\ ~(Closed(elab, last'.e_type) /\ Closed(elab, last'.type))
              /\ ~MonadApplies(elab, last'.e_type, last'.type))
                => /\ ~last'.some /\ last'.exc = "none"
                   /\ Searches(elab') = {}
          /\ ~elab.m_coercions
                => /\ ~last'.some /\ last'.exc = "none"
                   /\ Searches(elab') = {}
                   /\ elab'.mctx = elab.mctx ]_vars

(* C25 as stated: the coercions are tried when the coercions are enabled  *)
(* and neither or both of the types are closed (or the monadic heuristic  *)
(* applies), and in no other case.                                        *)
C25_NeitherOrBothClosed ==
    [][ (/\ last'.op = "ensure_has_type"
         /\ ~ctx_is_def_eq(elab.mctx, last'.e_type, last'.type).ok) =>
          /\ Searches(elab') # {} =>
                /\ elab.m_coercions
                /\ \/ Closed(elab, last'.e_type) = Closed(elab, last'.type)
                   \/ MonadApplies(elab, last'.e_type, last'.type)
          /\ (/\ elab.m_coercions
              /\ Closed(elab, last'.e_type) = Closed(elab, last'.type))
                => Searches(elab') # {}
          /\ (/\ Closed(elab, last'.e_type) # Closed(elab, last'.type)
              /\ ~MonadApplies(elab, last'.e_type, last'.type))
                => /\ ~last'.some /\ last'.exc = "none"
                   /\ Searches(elab') = {}
          /\ ~elab.m_coercions
                => /\ ~last'.some /\ last'.exc = "none"
                   /\ Searches(elab') = {} ]_vars

(* Both types hold a metavariable, the coercions are enabled, the types   *)
(* differ, and the answer is "no coercion" without a search.              *)
C25_Witness ==
    /\ last.op = "ensure_has_type"
    /\ last.e_type.c = "solver" /\ is_metavar(last.e_type.args[1])
    /\ last.type.c = "tactic" /\ is_metavar(last.type.args[1])
    /\ elab.m_coercions
    /\ ~last.some /\ last.exc = "none"
    /\ Searches(elab) = {}

(***************************************************************************)
(* The hint registry.  Hints of the catalogue are registered with a       *)
(* priority, and the checker asks for the hints of a stuck pair.          *)
(***************************************************************************)
MaxRegs == 2

HintPrios == {1, 2}

StuckPairs ==
    { <<T2("add", T0("n0"), T0("n0")), T1("double", T0("n0"))>>,
      <<T2("add", T0("n1"), T0("n1")), T1("double", T0("n1"))>>,
      <<T2("add", T0("n0"), T0("n1")), T1("double", T0("n0"))>>,
      <<T1("double", T0("n1")), T2("add", T0("n1"), T0("n1"))>>,
      <<T1("succ", T0("n0")), T1("inc", T0("n0"))>> }

HintNames == {"add", "double", "inc", "succ"}

InitHints ==
    /\ elab = NewElab(TRUE, TRUE, FALSE, FALSE)
    /\ saved = NoSnapshot
    /\ last = [op |-> "new", exc |-> "none"]
    /\ tc = Idle
    /\ arrival = NoArrivals
    /\ hints = NoHints
    /\ m_root = NoNode

RegisterHint ==
    /\ Len(hints.log) < MaxRegs
    /\ \E i \in DOMAIN HintDecls : \E prio \in HintPrios :
          LET r == register_hint(hints, i, HintDecls[i], prio)
          IN  /\ Cardinality(DOMAIN r.st.m_decl_names_to_prio) <= MaxRegs
              /\ hints' = r.st
              /\ last' = [op |-> "register_hint", exc |-> r.exc,
                          d |-> i, prio |-> prio]
    /\ UNCHANGED <<elab, saved, tc, arrival, m_root>>

TryUnificationHints ==
    /\ \E p \in StuckPairs :
          LET r == try_unification_hints(hints.m_hints, p[1], p[2])
          IN  last' = [op |-> "try_unification_hints", exc |-> "none",
                       e1 |-> p[1], e2 |-> p[2], ok |-> r.ok,
                       tried |-> r.tried]
    /\ UNCHANGED <<elab, saved, tc, arrival, hints, m_root>>

NextHints == RegisterHint \/ TryUnificationHints

SpecHints == InitHints /\ [][NextHints]_vars

(* The hint a declaration of the catalogue is stored as, whichever way    *)
(* round its two sides are kept.                                          *)
IsHintOf(h, d) ==
    /\ {h.m_lhs, h.m_rhs} = {d.lhs, d.rhs}
    /\ h.m_constraints = d.cs
    /\ h.m_num_vars = d.num_vars

KeysOrdered(st) ==
    \A key \in DOMAIN st.m_hints :
       /\ quick_cmp(key[1], key[2]) <= 0
       /\ \A x \in st.m_hints[key].elems :
             /\ const_name(get_app_fn(x.v.m_lhs)) = key[1]
             /\ const_name(get_app_fn(x.v.m_rhs)) = key[2]

(* C16: every key of the registry has its smaller name first and its      *)
(* hints have their sides the same way round; the lookup gives the same   *)
(* hints for (c1, c2) and (c2, c1); after a successful registration both  *)
(* lookups contain the registered hint.                                   *)
C16_LookupOrderInsensitive ==
    /\ KeysOrdered(hints)
    /\ \A n1, n2 \in HintNames :
          get_unification_hints(hints.m_hints, n1, n2)
            = get_unification_hints(hints.m_hints, n2, n1)
    /\ (last.op = "register_hint" /\ last.exc = "none") =>
          \E x \in find(hints.m_hints, HintKey(HintDecls[last.d])).elems :
             /\ IsHintOf(x.v, HintDecls[last.d])
             /\ x.prio = last.prio
             /\ InSeq(x, get_unification_hints(hints.m_hints,
                              HintDecls[last.d].lhs.c, HintDecls[last.d].rhs.c))
             /\ InSeq(x, get_unification_hints(hints.m_hints,
                              HintDecls[last.d].rhs.c, HintDecls[last.d].lhs.c))

(* A hint declared with its larger head first has just been registered    *)
(* under a key that holds another hint.                                   *)
C16_Witness ==
    /\ last.op = "register_hint" /\ last.exc = "none"
    /\ HintSwapped(HintDecls[last.d])
    /\ Cardinality(hints.m_hints[HintKey(HintDecls[last.d])].elems) >= 2

(* The registrations in force: the last registration of each hint.        *)
InForce(log, key) ==
    { k \in DOMAIN log :
        /\ log[k].key = key
        /\ \A j \in DOMAIN log : j > k => log[j].hint # log[k].hint }

Matches(h, e1, e2) ==
    MatchPattern(h, e1, e2).ok \/ MatchPattern(h, e2, e1).ok

PairKey(e1, e2) ==
    IF quick_cmp(e1.c, e2.c) > 0 THEN <<e2.c, e1.c>> ELSE <<e1.c, e2.c>>

TriedAt(tried, h) == { i \in DOMAIN tried : tried[i].hint = h }

(* C17: the hints of a stuck pair are tried by descending priority; a     *)
(* hint's constraints are checked in order up to the first that fails;    *)
(* every hint tried before the last one failed and the pair is resolved   *)
(* exactly when the last one tried succeeded; of two registered hints of  *)
(* the key that both match the pair, the one with the higher priority is  *)
(* tried, and tried first, and the other is tried when that one fails     *)
(* and no hint in between succeeds.                                       *)
C17_HintPriority ==
    [][ last'.op = "try_unification_hints" =>
          /\ \A i, j \in DOMAIN last'.tried :
                i < j => /\ last'.tried[i].prio >= last'.tried[j].prio
                         /\ ~last'.tried[i].ok
          /\ last'.ok = (last'.tried # <<>> /\ last'.tried[Len(last'.tried)].ok)
          /\ \A i \in DOMAIN last'.tried :
                /\ last'.tried[i].ok =>
                      last'.tried[i].checked = Len(last'.tried[i].hint.m_constraints)
                /\ (last'.tried[i].matched /\ ~last'.tried[i].ok) =>
                      last'.tried[i].checked \in
                          1..Len(last'.tried[i].hint.m_constraints)
          /\ \A a, b \in InForce(hints.log, PairKey(last'.e1, last'.e2)) :
                (/\ hints.log[a].prio > hints.log[b].prio
                 /\ Matches(hints.log[a].hint, last'.e1, last'.e2)
                 /\ Matches(hints.log[b].hint, last'.e1, last'.e2)) =>
                   /\ TriedAt(last'.tried, hints.log[a].hint) # {}
                   /\ \A i \in TriedAt(last'.tried, hints.log[a].hint) :
                      \A j \in TriedAt(last'.tried, hints.log[b].hint) : i < j
                   /\ ~last'.ok => TriedAt(last'.tried, hints.log[b].hint) # {} ]_vars

(***************************************************************************)
(* Errors of internal consistency.  check_inaccessible looks at the       *)
(* pairs pushed since old_stack, oldest first; visit_equations visits a   *)
(* left-hand side with one inaccessible term, whose metavariable the      *)
(* other arguments fix (fix) or leave open (NoTerm), drains the worklists *)
(* and checks the inaccessible terms; finalize_theorem_proof renames the  *)
(* universes of a proof with the names fixed by the theorem's type.       *)
(***************************************************************************)
RECURSIVE CheckInaccessibleLoop(_, _, _)
CheckInaccessibleLoop(e, to_process, i) ==
    IF i = 0 THEN Ok(e, NoTerm)
    ELSE IF ~is_assigned(e.mctx, to_process[i].m)
    THEN Throw(Emit(e, "inaccessible", to_process[i].m, FALSE), "elab")
    ELSE IF has_expr_metavar(instantiate_mvars(e, MVar(to_process[i].m)))
    THEN Throw(Emit(e, "inaccessible", to_process[i].m, FALSE), "elab")
    ELSE Val([q \in {is_def_eq(e, instantiate_mvars(e, MVar(to_process[i].m)),
                               to_process[i].val)} |->
             IF ~q.ok
             THEN Throw(Emit(q.st, "inaccessible", to_process[i].m, FALSE), "elab")
             ELSE CheckInaccessibleLoop(Emit(q.st, "inacc_ok", to_process[i].m, TRUE),
                                        to_process, i - 1)])

check_inaccessible_newest_first(e, old_stack) ==
    Val([to_process \in {SubSeq(e.m_inaccessible_stack, 1,
                                Len(e.m_inaccessible_stack) - Len(old_stack))} |->
        CheckInaccessibleLoop([e EXCEPT !.m_inaccessible_stack = old_stack],
                              [k \in DOMAIN to_process |->
                                  to_process[Len(to_process) + 1 - k]],
                              Len(to_process))])

check_inaccessible(e, old_stack) ==
    Val([to_process \in {SubSeq(e.m_inaccessible_stack, 1,
                                Len(e.m_inaccessible_stack) - Len(old_stack))} |->
        CheckInaccessibleLoop([e EXCEPT !.m_inaccessible_stack = old_stack],
                              to_process, Len(to_process))])

visit_equation(e, fix) ==
    Val([l \in {visit([e EXCEPT !.m_in_pattern = TRUE],
                      SInacc(SAsIs(T0("n0"))), T0("nat"))} |->
        IF l.exc # "none"
        THEN Throw([l.st EXCEPT !.m_in_pattern = e.m_in_pattern], l.exc)
        ELSE Val([q \in {IF fix = NoTerm THEN [ok |-> TRUE, st |-> l.st]
                         ELSE is_def_eq(l.st, l.val.args[1], fix)} |->
             Val([r \in {synthesize_no_tactics(q.st)} |->
                 [r EXCEPT !.st.m_in_pattern = e.m_in_pattern]])])])

visit_equations(e, fix) ==
    recover_expr_from_exception(NoTerm,
        Val([r \in {visit_equation(e, fix)} |->
            IF r.exc # "none"
            THEN Throw([r.st EXCEPT !.m_inaccessible_stack =
                           e.m_inaccessible_stack], r.exc)
            ELSE Val([s \in {synthesize(r.st)} |->
                 IF s.exc # "none"
                 THEN Throw([s.st EXCEPT !.m_inaccessible_stack =
                                e.m_inaccessible_stack], s.exc)
                 ELSE Val([c \in {check_inaccessible(s.st,
                                      e.m_inaccessible_stack)} |->
                          [c EXCEPT !.st.m_inaccessible_stack =
                                       e.m_inaccessible_stack]])])]))

(* Universe names of a proof: info is the set of names the type fixed.    *)
finalize_theorem_proof(e, univs, info) ==
    IF univs \subseteq info THEN Ok(e, NoTerm)
    ELSE Throw(Emit(e, "universe", 0, FALSE), "exception")

UnivNames == {"u_1", "u_2"}

PendingInstances(e) ==
    { e.m_instances[k] : k \in DOMAIN e.m_instances }

AssignInstance ==
    /\ tc.pc = "idle"
    /\ \E m \in PendingInstances(elab) :
          LET q == is_def_eq(Begin(elab), MVar(m),
                             T1("sorry", elab.mctx.decl[m]))
          IN  Finish("is_def_eq", [st |-> q.st,
                                   exc |-> IF q.ok THEN "none" ELSE "no"])
    /\ UNCHANGED <<saved, tc, hints, m_root>>

VisitEquations ==
    /\ tc.pc = "idle" /\ Room(elab, 2)
    /\ \E fix \in {NoTerm, T0("n0"), T0("n1")} :
          Finish("visit_equations", visit_equations(Begin(elab), fix))
    /\ UNCHANGED <<saved, tc, hints, m_root>>

FinalizeTheoremProof ==
    /\ tc.pc = "idle"
    /\ \E univs \in SUBSET UnivNames : \E info \in SUBSET UnivNames :
          Finish("finalize_theorem_proof",
                 finalize_theorem_proof(Begin(elab), univs, info))
    /\ UNCHANGED <<saved, tc, hints, m_root>>

NextErr ==
    \/ MkTypeMetavar
    \/ MkInstance
    \/ IsDefEq
    \/ AssignInstance
    \/ VisitBy
    \/ VisitEquations
    \/ FinalizeTheoremProof
    \/ SynthBegin
    \/ TcScan
    \/ SynthTactics

SpecErr == Init /\ [][NextErr]_vars

InternalErrors(e) ==
    { i \in DOMAIN e.trace :
        e.trace[i].ev \in {"mismatch", "inaccessible", "universe"} }

(* C20: with recovery on and position information at hand, an operation   *)
(* in which an instance mismatch, an inaccessible term that is not fixed  *)
(* or a universe leak of a proof was raised ends with the exception and   *)
(* reports no diagnostic.                                                 *)
C20_InternalErrorsPropagate ==
    [][ (/\ elab.m_recover_from_errors /\ elab.pip
         /\ InternalErrors(elab') # {}) =>
           /\ last'.exc # "none"
           /\ elab'.reported = elab.reported ]_vars

(***************************************************************************)
(* A discrimination tree under insertions and erasures.                   *)
(***************************************************************************)
TreeKeys ==
    { T2("f", MVar(1), T0("n0")), T2("f", T0("n0"), T0("n0")),
      T2("f", T1("g", MVar(1)), MVar(2)), T1("g", T0("lam")),
      T2("h", T0("x"), MVar(1)), MVar(1) }

TreeValues == {"v1", "v2"}

Concrete == { T0("n0"), T0("n1"), T1("g", T0("n0")), T0("lam"), T0("x") }

TreeInsert ==
    /\ \E k \in TreeKeys : \E v \in TreeValues :
          /\ m_root' = discr_tree_insert(m_root, k, v)
          /\ last' = [op |-> "insert", exc |-> "none", k |-> k, v |-> v]
    /\ UNCHANGED <<elab, saved, tc, arrival, hints>>

TreeErase ==
    /\ \E k \in TreeKeys : \E v \in TreeValues :
          /\ m_root' = discr_tree_erase(m_root, k, v)
          /\ last' = [op |-> "erase", exc |-> "none", k |-> k, v |-> v]
    /\ UNCHANGED <<elab, saved, tc, arrival, hints>>

NextTree == TreeInsert \/ TreeErase

SpecTree == InitHints /\ [][NextTree]_vars

(* C18: the key of an inserted pair retrieves its value, and from the     *)
(* tree that holds one pair only, nothing is retrieved for the key once   *)
(* the pair is erased.                                                    *)
C18_InsertRetrieveErase ==
    [][ /\ last'.op = "insert" =>
              last'.v \in discr_tree_collect(m_root', last'.k)
        /\ (/\ last'.op = "erase"
            /\ m_root = discr_tree_insert(NoNode, last'.k, last'.v)) =>
              discr_tree_collect(m_root', last'.k) = {} ]_vars

(* The one pair of the tree has just been erased.                         *)
C18_Witness ==
    /\ last.op = "erase"
    /\ discr_tree_collect(discr_tree_insert(NoNode, last.k, last.v), last.k)
         = {last.v}
    /\ m_root = discr_tree_erase(discr_tree_insert(NoNode, last.k, last.v),
                                 last.k, last.v)
    /\ discr_tree_collect(m_root, last.k) = {}

(* The queries that differ from the key k by a concrete term in the place *)
(* of one occurrence of a metavariable.                                   *)
RECURSIVE Generalized(_)
Generalized(k) ==
    IF is_metavar(k) THEN Concrete
    ELSE UNION { { [k EXCEPT !.args[i] = c] : c \in Generalized(k.args[i]) } :
                   i \in DOMAIN k.args }

(* C19: a value inserted under a key with a metavariable is retrieved by  *)
(* every query that has a concrete term in the place of the metavariable. *)
C19_StarGeneralizes ==
    [][ last'.op = "insert" =>
           \A q \in Generalized(last'.k) :
              last'.v \in discr_tree_collect(m_root', q) ]_vars

(* A query with an application in the place of the metavariable of the    *)
(* key retrieves the value just inserted.                                 *)
C19_Witness ==
    /\ last.op = "insert"
    /\ last.k = T2("f", MVar(1), T0("n0"))
    /\ last.v \in discr_tree_collect(m_root,
                      T2("f", T1("g", T0("n0")), T0("n0")))
    /\ T2("f", T1("g", T0("n0")), T0("n0")) \in Generalized(last.k)


(***************************************************************************)
(* visit(term, expected_type) in every combination of the recovery switch  *)
(* and the position provider.                                              *)
(***************************************************************************)
VisitTerms ==
    { SHole, SSort, SAsIs(T0("n0")), SNum(0 - 1), SNum(2),
      SInacc(SAsIs(T0("n0"))), SInacc(SNum(0 - 1)) }
    \cup { SBy(Tacs[i]) : i \in 1..3 }

InitVisit ==
    /\ elab \in { NewElab(r, p, ip, FALSE) : r \in BOOLEAN, p \in BOOLEAN,
                                             ip \in BOOLEAN }
    /\ saved = NoSnapshot
    /\ last = [op |-> "new", exc |-> "none"]
    /\ tc = Idle
    /\ arrival = NoArrivals
    /\ hints = NoHints
    /\ m_root = NoNode

Visit ==
    /\ tc.pc = "idle" /\ Room(elab, 3)
    /\ \E s \in VisitTerms :
       \E ty \in {NoTerm, T0("nat")} \cup { MVar(m) : m \in TypeMvars(elab) } :
          LET body == VisitCases(Begin(elab), s, ty)
              r    == visit(Begin(elab), s, ty)
          IN  /\ Bounded(r.st)
              /\ elab' = r.st
              /\ last' = [op |-> "visit", exc |-> r.exc, val |-> r.val,
                          s |-> s, expected_type |-> ty,
                          raised |-> body.exc # "none",
                          at |-> body.st]
              /\ arrival' = Arrive(arrival, r.st)
    /\ UNCHANGED <<saved, tc, hints, m_root>>

NextVisit ==
    \/ MkTypeMetavar
    \/ MkInstance
    \/ IsDefEq
    \/ Visit

SpecVisit == InitVisit /\ [][NextVisit]_vars

(* C21: when an error is raised in visit and recovery is enabled and a    *)
(* position provider is installed, one diagnostic is reported, the error  *)
(* flag is set and the result is a placeholder of the expected type, or   *)
(* of a fresh type metavariable when no expected type is given; when      *)
(* recovery is disabled or no provider is installed the error reaches the *)
(* caller, nothing is reported and the error flag stays as the failing    *)
(* term left it.                                                          *)
C21_RecoverableErrors ==
    [][ (last'.op = "visit" /\ last'.raised) =>
          IF elab.m_recover_from_errors /\ elab.pip
          THEN /\ last'.exc = "none"
               /\ elab'.reported = last'.at.reported + 1
               /\ elab'.m_has_errors
               /\ IF last'.expected_type # NoTerm
                  THEN last'.val = T1("sorry", last'.expected_type)
                  ELSE \E m \in Ids :
                          /\ last'.val = T1("sorry", MVar(m))
                          /\ ~IsDeclared(last'.at.mctx, m)
                          /\ elab'.mctx.decl[m] = T0("Type")
                          /\ ~is_assigned(elab'.mctx, m)
          ELSE /\ last'.exc # "none"
               /\ elab'.reported = elab.reported
               /\ elab'.m_has_errors = last'.at.m_has_errors
               /\ elab'.m_has_errors = elab.m_has_errors ]_vars

(* An inaccessible pattern outside a pattern was replaced by a placeholder *)
(* of a fresh type metavariable, and a diagnostic was reported.            *)
C21_Witness ==
    /\ last.op = "visit" /\ last.raised /\ last.exc = "none"
    /\ last.expected_type = NoTerm
    /\ last.val.c = "sorry" /\ is_metavar(last.val.args[1])
    /\ elab.m_has_errors /\ elab.reported > 0


(***************************************************************************)
(* The definitional-equality checks of the session, with a checker that    *)
(* may raise.                                                              *)
(***************************************************************************)
DefEqTerms(e) ==
    { T0("nat"), T0("bool"), T0("deep") } \cup { MVar(m) : m \in TypeMvars(e) }

Levels == { T1("succ", T0("zero")), T0("zero"), T0("u"), T0("deep") }

AutoTactics == { "tac_a", "tac_nat", "tac_deep", "tac_none" }

InitDefEq ==
    /\ elab \in { [NewElab(m[1], m[2], m[3], m[4]) EXCEPT
                      !.m_env = @ \cup {"tac_nat", "tac_deep"}] : m \in InitModes }
    /\ saved = NoSnapshot
    /\ last = [op |-> "new", exc |-> "none"]
    /\ tc = Idle
    /\ arrival = NoArrivals
    /\ hints = NoHints
    /\ m_root = NoNode

DefEq ==
    /\ tc.pc = "idle"
    /\ \E t1 \in DefEqTerms(elab) : \E t2 \in DefEqTerms(elab) :
       \E try \in BOOLEAN :
          LET q == IF try THEN try_is_def_eq(Begin(elab), t1, t2)
                   ELSE is_def_eq(Begin(elab), t1, t2)
          IN  /\ Bounded(q.st)
              /\ elab' = q.st
              /\ last' = [op |-> IF try THEN "try_is_def_eq" ELSE "is_def_eq",
                          exc |-> "none", ok |-> q.ok,
                          raised |-> CheckerRaises(t1, t2)]
              /\ arrival' = Arrive(arrival, q.st)
    /\ UNCHANGED <<saved, tc, hints, m_root>>

EnsureHasTypeDefEq ==
    /\ tc.pc = "idle" /\ Room(elab, 1)
    /\ \E xt \in { <<T0("n0"), T0("nat")>>, <<T0("p0"), T0("Prop")>>,
                   <<T0("d0"), T1("tactic", T0("deep"))>> } :
       \E type \in { T0("nat"), T0("bool"), T0("deep") }
                   \cup { T1("solver", MVar(m)) : m \in TypeMvars(elab) } :
          LET r == ensure_has_type(Begin(elab), xt[1], xt[2], type)
          IN  /\ Bounded(r.st)
              /\ elab' = r.st
              /\ last' = [op |-> "ensure_has_type", exc |-> r.exc,
                          ok |-> r.some,
                          raised |-> type = T0("deep")
                                     \/ xt[2] = T1("tactic", T0("deep"))]
              /\ arrival' = Arrive(arrival, r.st)
    /\ UNCHANGED <<saved, tc, hints, m_root>>

DecLevel ==
    /\ tc.pc = "idle"
    /\ \E l \in Levels :
          LET r == dec_level(Begin(elab), l)
          IN  /\ Bounded(r.st)
              /\ elab' = r.st
              /\ last' = [op |-> "dec_level", exc |-> r.exc,
                          ok |-> r.exc = "none", raised |-> l = T0("deep")]
              /\ arrival' = Arrive(arrival, r.st)
    /\ UNCHANGED <<saved, tc, hints, m_root>>

MkAutoParam ==
    /\ tc.pc = "idle" /\ Room(elab, 2)
    /\ \E tac \in AutoTactics :
          LET r == mk_auto_param(Begin(elab), tac, T0("unit"))
          IN  /\ Bounded(r.st)
              /\ elab' = r.st
              /\ last' = [op |-> "mk_auto_param", exc |-> r.exc,
                          ok |-> r.exc = "none", raised |-> tac = "tac_deep"]
              /\ arrival' = Arrive(arrival, r.st)
    /\ UNCHANGED <<saved, tc, hints, m_root>>

NextDefEq ==
    \/ MkTypeMetavar
    \/ DefEq
    \/ EnsureHasTypeDefEq
    \/ DecLevel
    \/ MkAutoParam

SpecDefEq == InitDefEq /\ [][NextDefEq]_vars

(* C22: no definitional-equality check of the session lets an exception   *)
(* of the checker through: is_def_eq, try_is_def_eq and the checks of      *)
(* the coercions, of the numeral levels and of the auto parameters answer  *)
(* with failure instead.                                                   *)
C22_DefEqNeverThrows ==
    last.op \in {"is_def_eq", "try_is_def_eq", "ensure_has_type",
                 "dec_level", "mk_auto_param"}
       => last.exc # "exception"


(***************************************************************************)
(* Eliminator applications (visit_elim_app).  An eliminator has a motive   *)
(* argument, key (major) arguments that determine the motive and explicit  *)
(* arguments elaborated after it.  #k in a domain is the k-th argument.    *)
(***************************************************************************)
ElimDecl(name) ==
    [tele |-> << Binder("implicit", IF name = "rec_on" THEN T0("Type") ELSE T0("Prop")),
                 Binder("explicit", T0("nat")),
                 Binder("explicit", T2("app", BVar(1), T0("n0"))) >>,
     res  |-> T2("app", BVar(1), BVar(2)),
     m_arity |-> 3, m_nexplicit |-> 2, m_motive_idx |-> 1, m_idxs |-> {2}]

SNone == [k |-> "none"]

RECURSIVE KAbstract(_, _)
KAbstract(t, k) ==
    IF t = k THEN BVar(1)
    ELSE [c |-> t.c, args |-> [i \in DOMAIN t.args |-> KAbstract(t.args[i], k)]]

(* The first loop: the arguments at info.m_idxs are elaborated, the        *)
(* worklists are drained and the result must be free of metavariables;     *)
(* every other explicit argument is postponed behind a metavariable.       *)
RECURSIVE ElimFirstLoop(_, _, _, _, _, _)
ElimFirstLoop(e, info, args, j, new_args, postponed) ==
    IF Len(new_args) >= Len(info.tele)
    THEN [st |-> e, exc |-> "none", j |-> j, new_args |-> new_args,
          postponed |-> postponed]
    ELSE Val([b \in {info.tele[Len(new_args) + 1]} |->
         Val([d \in {instantiate(b.d, new_args)} |->
            IF (Len(new_args) + 1) \in info.m_idxs
            THEN Val([r \in {visit(e, args[j + 1], d)} |->
                 IF r.exc # "none"
                 THEN [st |-> r.st, exc |-> r.exc, j |-> j,
                       new_args |-> new_args, postponed |-> postponed]
                 ELSE Val([s \in {synthesize(r.st)} |->
                      IF s.exc # "none"
                      THEN [st |-> s.st, exc |-> s.exc, j |-> j,
                            new_args |-> new_args, postponed |-> postponed]
                      ELSE Val([new_arg \in {instantiate_mvars(s.st, r.val)} |->
                           IF has_expr_metavar(new_arg)
                           THEN [st |-> Emit(s.st, "elim_key", j + 1, FALSE),
                                 exc |-> "elab", j |-> j + 1,
                                 new_args |-> new_args, postponed |-> postponed]
                           ELSE Val([q \in {is_def_eq(s.st, infer_type(s.st, new_arg), d)} |->
                                IF ~q.ok
                                THEN [st |-> q.st, exc |-> "elab", j |-> j + 1,
                                      new_args |-> Append(new_args, new_arg),
                                      postponed |-> postponed]
                                ELSE ElimFirstLoop(Emit(q.st, "elim_key", j + 1, TRUE),
                                        info, args, j + 1,
                                        Append(new_args, new_arg),
                                        Append(postponed, SNone))])])])])
            ELSE IF b.bi = "explicit"
            THEN Val([r \in {mk_metavar(e, d)} |->
                     ElimFirstLoop(r.st, info, args, j + 1,
                                   Append(new_args, r.val),
                                   Append(postponed, args[j + 1]))])
            ELSE Val([r \in {IF b.bi = "inst_implicit" THEN mk_instance(e, d)
                             ELSE mk_metavar(e, d)} |->
                     IF r.exc # "none"
                     THEN [st |-> r.st, exc |-> r.exc, j |-> j,
                           new_args |-> new_args, postponed |-> postponed]
                     ELSE ElimFirstLoop(r.st, info, args, j,
                                        Append(new_args, r.val),
                                        Append(postponed, SNone))])])])

(* The arguments after the arity are elaborated without expected type.    *)
RECURSIVE ElimExtraArgs(_, _, _, _)
ElimExtraArgs(e, args, j, new_args) ==
    IF j >= Len(args) THEN [st |-> e, exc |-> "none", new_args |-> new_args]
    ELSE Val([r \in {visit(e, args[j + 1], NoTerm)} |->
             IF r.exc # "none"
             THEN [st |-> r.st, exc |-> r.exc, new_args |-> new_args]
             ELSE ElimExtraArgs(Emit(r.st, "elim_extra", j + 1, TRUE), args, j + 1,
                                Append(new_args, r.val))])

(* The expected type of the application without its extra arguments.      *)
RECURSIVE ElimExpectedType(_, _, _, _, _)
ElimExpectedType(e, expected_type, new_args, i, arity) ==
    IF i <= arity THEN expected_type
    ELSE Val([new_arg \in {instantiate_mvars(e, new_args[i])} |->
             ElimExpectedType(e,
                 T2("pi", instantiate_mvars(e, infer_type(e, new_arg)),
                          KAbstract(expected_type, new_arg)),
                 new_args, i - 1, arity)])

(* The motive: the expected type abstracted over the keys of the result   *)
(* type of the eliminator, last key first.                                *)
RECURSIVE ElimMotiveLoop(_, _, _, _)
ElimMotiveLoop(e, motive, keys, i) ==
    IF i = 0 THEN motive
    ELSE Val([k \in {instantiate_mvars(e, keys[i])} |->
             ElimMotiveLoop(e, T2("lam", infer_type(e, k), KAbstract(motive, k)),
                            keys, i - 1)])

(* The motive is unified with the motive argument without a test of the   *)
(* answer.                                                                *)
ElimUnifyMotiveUnchecked(e, motive_arg, motive) ==
    Val([q \in {is_def_eq(Emit(e, "elim_motive", 0, TRUE), motive_arg, motive)} |->
        Ok(Emit(q.st, "elim_unify", 0, q.ok), motive)])

ElimUnifyMotive(e, motive_arg, motive) ==
    Val([q \in {is_def_eq(Emit(e, "elim_motive", 0, TRUE), motive_arg, motive)} |->
        IF ~q.ok THEN Throw(Emit(q.st, "elim_unify", 0, FALSE), "elab")
        ELSE Ok(Emit(q.st, "elim_unify", 0, TRUE), motive)])

(* The postponed arguments, against the types the motive has determined.  *)
RECURSIVE ElimPostponed(_, _, _, _)
ElimPostponed(e, new_args, postponed, i) ==
    IF i > Len(postponed) THEN [st |-> e, exc |-> "none", new_args |-> new_args]
    ELSE IF postponed[i].k = "none"
    THEN ElimPostponed(e, new_args, postponed, i + 1)
    ELSE Val([new_arg_type \in {instantiate_mvars(e, infer_type(e, new_args[i]))} |->
         Val([r \in {visit(Emit(e, "elim_postponed", i, TRUE), postponed[i],
                           new_arg_type)} |->
             IF r.exc # "none"
             THEN [st |-> r.st, exc |-> r.exc, new_args |-> new_args]
             ELSE Val([q \in {is_def_eq(r.st, new_args[i], r.val)} |->
                      IF ~q.ok
                      THEN [st |-> q.st, exc |-> "elab", new_args |-> new_args]
                      ELSE ElimPostponed(q.st, [new_args EXCEPT ![i] = r.val],
                                         postponed, i + 1)])])])

visit_elim_app(e, fn, args, given_type) ==
    IF given_type = NoTerm THEN Throw(e, "elab")
    ELSE Val([c \in {synthesize_type_class_instances(e)} |->
         IF c.exc # "none" THEN Throw(c.st, c.exc)
         ELSE Val([expected_type \in {instantiate_mvars(c.st, given_type)} |->
              IF has_expr_metavar(expected_type) THEN Throw(c.st, "elab")
              ELSE Val([l \in {ElimFirstLoop(c.st, ElimDecl(fn), args, 0, <<>>, <<>>)} |->
                   IF l.exc # "none" THEN Throw(l.st, l.exc)
                   ELSE Val([x \in {ElimExtraArgs(l.st, args, l.j, l.new_args)} |->
                        IF x.exc # "none" THEN Throw(x.st, x.exc)
                        ELSE Val([s \in {synthesize(x.st)} |->
                             IF s.exc # "none" THEN Throw(s.st, s.exc)
                             ELSE Val([m \in {ElimUnifyMotive(s.st,
                                         x.new_args[ElimDecl(fn).m_motive_idx],
                                         ElimMotiveLoop(s.st,
                                            ElimExpectedType(s.st, expected_type, x.new_args,
                                                Len(x.new_args), ElimDecl(fn).m_arity),
                                            Tail(instantiate(ElimDecl(fn).res,
                                                             x.new_args).args),
                                            Len(ElimDecl(fn).res.args) - 1))} |->
                                  IF m.exc # "none" THEN Throw(m.st, m.exc)
                                  ELSE Val([p \in {ElimPostponed(m.st,
                                              SubSeq(x.new_args, 1, ElimDecl(fn).m_arity),
                                              l.postponed, 1)} |->
                                       IF p.exc # "none" THEN Throw(p.st, p.exc)
                                       ELSE Ok(p.st, instantiate_mvars(p.st,
                                               [c |-> fn, args |-> p.new_args \o
                                                   SubSeq(x.new_args, ElimDecl(fn).m_arity + 1,
                                                          Len(x.new_args))]))])])])])])])])


ElimKeys   == { SAsIs(T0("n0")), SHole, SBy(Tacs[1]), SBy(Tacs[2]), SNum(1) }
ElimMinors == { SHole, SBy(Tacs[1]), SAsIs(T0("n0")) }
ElimExtras == { <<>>, << SAsIs(T0("n1")) >> }

VisitElimApp ==
    /\ tc.pc = "idle"
    /\ \E fn \in {"rec_on", "rec_prop"} : \E key \in ElimKeys :
       \E minor \in ElimMinors : \E extra \in ElimExtras :
       \E ty \in {NoTerm, T0("nat"), T1("vec", T0("n0"))}
                 \cup { MVar(m) : m \in TypeMvars(elab) } :
          /\ Room(elab, 4) \/ is_metavar(ty)
          /\ LET r == visit_elim_app(Begin(elab), fn, <<key, minor>> \o extra, ty)
             IN  /\ Bounded(r.st)
                 /\ elab' = r.st
                 /\ last' = [op |-> "visit_elim_app", exc |-> r.exc, val |-> r.val,
                             fn |-> fn, key |-> key, minor |-> minor]
                 /\ arrival' = Arrive(arrival, r.st)
    /\ UNCHANGED <<saved, tc, hints, m_root>>

NextElim ==
    \/ MkTypeMetavar
    \/ VisitElimApp

SpecElim == Init /\ [][NextElim]_vars

EventsOf(e, ev) == { i \in DOMAIN e.trace : e.trace[i].ev = ev }

(* C23: in an eliminator application every key argument has been          *)
(* elaborated, drained and found free of metavariables before the motive   *)
(* is computed; the motive has been unified with the motive argument       *)
(* before a postponed argument is elaborated; and when a key argument      *)
(* holds a metavariable or the motive does not unify, an error is raised   *)
(* and no postponed argument is elaborated.                                *)
C23_ElimProtocol ==
    [][ last'.op = "visit_elim_app" =>
          /\ \A i \in EventsOf(elab', "elim_motive") :
                /\ Cardinality({ k \in EventsOf(elab', "elim_key") :
                                    k < i /\ elab'.trace[k].ok })
                      = Cardinality(ElimDecl(last'.fn).m_idxs)
                /\ \A k \in EventsOf(elab', "elim_key") : k < i
          /\ \A p \in EventsOf(elab', "elim_postponed") :
                \E u \in EventsOf(elab', "elim_unify") :
                   u < p /\ elab'.trace[u].ok
          /\ ( \/ \E k \in EventsOf(elab', "elim_key") : ~elab'.trace[k].ok
               \/ \E u \in EventsOf(elab', "elim_unify") : ~elab'.trace[u].ok )
             => /\ last'.exc # "none"
                /\ EventsOf(elab', "elim_postponed") = {}
          /\ (last'.key = SHole /\ EventsOf(elab', "elim_key") # {})
                => last'.exc # "none" /\ EventsOf(elab', "elim_motive") = {} ]_vars

(* An eliminator application whose key is a tactic block and whose        *)
(* postponed argument was elaborated after the motive was unified.        *)
C23_Witness ==
    /\ last.op = "visit_elim_app" /\ last.exc = "none"
    /\ last.key.k = "by"
    /\ EventsOf(elab, "elim_postponed") # {}
    /\ EventsOf(elab, "elim_unify") # {}


(***************************************************************************)
(* first_pass followed by second_pass on applications with instance        *)
(* arguments.                                                              *)
(***************************************************************************)
InstApps ==
    { [fn |-> "one", args |-> <<>>, need |-> 2],
      [fn |-> "h_inst", args |-> << SAsIs(T0("n0")) >>, need |-> 2],
      [fn |-> "h_inst", args |-> << SSort >>, need |-> 3],
      [fn |-> "h_inst", args |-> << SBy(Tacs[1]) >>, need |-> 4],
      [fn |-> "k_inst", args |-> << SAsIs(T0("n0")) >>, need |-> 3],
      [fn |-> "k_inst", args |-> << SAsIs(T0("tt")) >>, need |-> 3],
      [fn |-> "k_inst", args |-> << SSort >>, need |-> 4] }

SecondPass ==
    /\ tc.pc = "idle"
    /\ \E a \in InstApps :
       \E ty \in {T0("nat"), T0("bool")} \cup { MVar(m) : m \in TypeMvars(elab) } :
          /\ Room(elab, a.need)
          /\ LET f == first_pass(Begin(elab), T0(a.fn), a.args, ty)
                 r == second_pass(f.st, T0(a.fn), a.args, f.info)
             IN  /\ f.exc = "none"
                 /\ Bounded(r.st)
                 /\ elab' = r.st
                 /\ last' = [op |-> "second_pass", exc |-> r.exc, val |-> r.val,
                             new_instances |-> f.info.new_instances,
                             new_instances_size |-> f.info.new_instances_size,
                             pending |-> f.st.m_instances]
                 /\ arrival' = Arrive(arrival, r.st)
    /\ UNCHANGED <<saved, tc, hints, m_root>>

NextSecondPass ==
    \/ MkTypeMetavar
    \/ IsDefEq
    \/ SecondPass

SpecSecondPass == Init /\ [][NextSecondPass]_vars

Attempts(e) ==
    LET sel == SelectSeq(e.trace, LAMBDA ev : ev.ev = "sp_inst")
    IN  [i \in DOMAIN sel |-> sel[i].m]

Occurrences(x, q) == Cardinality({ k \in DOMAIN q : q[k] = x })

(* C24: when the second pass completes, the instance metavariables of the *)
(* first pass have been attempted once each, in creation order, each      *)
(* before the explicit argument that follows it is elaborated; one is     *)
(* queued exactly when its attempt did not synthesize it; and at the end  *)
(* each is assigned or pending, and none is pending twice.                *)
C24_SecondPassInstances ==
    [][ (last'.op = "second_pass" /\ last'.exc = "none") =>
          /\ Attempts(elab') = last'.new_instances
          /\ \A i \in DOMAIN last'.new_instances_size :
             \A j \in 1..last'.new_instances_size[i] :
                \E a \in EventsOf(elab', "sp_inst") :
                \E b \in EventsOf(elab', "sp_arg") :
                   /\ elab'.trace[a].m = last'.new_instances[j]
                   /\ elab'.trace[b].m = i
                   /\ a < b
          /\ \A a \in EventsOf(elab', "sp_inst") :
                ~elab'.trace[a].ok <=>
                   /\ a - 1 \in EventsOf(elab', "q_inst")
                   /\ elab'.trace[a - 1].m = elab'.trace[a].m
          /\ \A k \in EventsOf(elab', "q_inst") :
                InSeq(elab'.trace[k].m, last'.new_instances)
                   => k + 1 \in EventsOf(elab', "sp_inst")
          /\ \A j \in DOMAIN last'.new_instances :
                /\ \/ is_assigned(elab'.mctx, last'.new_instances[j])
                   \/ InSeq(last'.new_instances[j], elab'.m_instances)
                /\ Occurrences(last'.new_instances[j], elab'.m_instances) <= 1 ]_vars

(* A second pass that synthesized one instance where it was scheduled and *)
(* left another one pending.                                              *)
C24_Witness ==
    /\ last.op = "second_pass" /\ last.exc = "none"
    /\ Len(last.new_instances) = 2
    /\ \E a \in EventsOf(elab, "sp_inst") : elab.trace[a].ok
    /\ \E a \in EventsOf(elab, "sp_inst") : ~elab.trace[a].ok
    /\ EventsOf(elab, "sp_arg") # {}

(***************************************************************************)
(* Structure instances without a source ({ x := 1 } against a record).    *)
(* A structure is its constructor telescope: explicit fields of type nat, *)
(* each with no default, a default value, or a default that is the value  *)
(* of another field.                                                      *)
(***************************************************************************)
FieldNames == {"x", "y", "z"}

Field(name, def) == [name |-> name, dom |-> T0("nat"), def |-> def]

NoDefault       == [k |-> "none"]
DefaultVal(s)   == [k |-> "val", s |-> s]
DefaultField(f) == [k |-> "field", f |-> f]

StructNames == {"point", "dep", "chain", "cyc", "bad"}

StructDecl(S) ==
    CASE S = "point" -> << Field("x", NoDefault), Field("y", DefaultVal(SNum(0))) >>
      [] S = "dep"   -> << Field("x", DefaultField("y")),
                           Field("y", DefaultVal(SAsIs(T0("n0")))) >>
      [] S = "chain" -> << Field("x", DefaultField("y")),
                           Field("y", DefaultField("z")),
                           Field("z", DefaultVal(SAsIs(T0("n1")))) >>
      [] S = "cyc"   -> << Field("x", DefaultField("y")),
                           Field("y", DefaultField("x")) >>
      [] S = "bad"   -> << Field("x", DefaultVal(SAsIs(T0("n0")))),
                           Field("y", DefaultVal(SNum(0 - 1))) >>

has_default_value(S, i) == StructDecl(S)[i].def.k # "none"

NoSurface == [k |-> "absent"]

NoFields == [f \in FieldNames |-> NoTerm]

(* The value of a default: it needs the value of every field it names.    *)
mk_field_default_value(e, S, i, field2value) ==
    IF StructDecl(S)[i].def.k = "val"
    THEN Ok(e, StructDecl(S)[i].def.s)
    ELSE IF field2value[StructDecl(S)[i].def.f] = NoTerm
    THEN Throw(e, "exception")
    ELSE Ok(e, SAsIs(instantiate_mvars(e, field2value[StructDecl(S)[i].def.f])))

assign_field_mvar(e, mvar, h) ==
    IF ~h.some THEN Throw(e, "elab")
    ELSE Val([q \in {is_def_eq(e, mvar, h.val)} |->
             IF ~q.ok THEN Throw(q.st, "elab") ELSE Ok(q.st, h.val)])

(* elaborate_arg followed by assign_field_mvar, against the type of mvar.  *)
ElabField(e, mvar, fval) ==
    Val([h \in {elaborate_arg(e, fval, instantiate_mvars(e, infer_type(e, mvar)))} |->
        IF h.exc # "none" THEN Throw(h.st, h.exc)
        ELSE assign_field_mvar(h.st, mvar, h)])

(* The loop over the constructor telescope: a metavariable per field. L   *)
(* holds the session, the constructor arguments and the two name maps.    *)
RECURSIVE StructFirstLoop(_, _, _, _)
StructFirstLoop(L, S, given, i) ==
    IF i > Len(StructDecl(S)) \/ L.exc # "none" THEN L
    ELSE IF given[StructDecl(S)[i].name] # NoSurface
    THEN Val([r \in {mk_metavar(L.st, StructDecl(S)[i].dom)} |->
             StructFirstLoop(
                 [L EXCEPT !.st = r.st,
                           !.c_args = Append(@, r.val),
                           !.to_elaborate = Append(@, i),
                           !.field2value[StructDecl(S)[i].name] = r.val],
                 S, given, i + 1)])
    ELSE IF has_default_value(S, i)
    THEN Val([r \in {mk_metavar(L.st, StructDecl(S)[i].dom)} |->
             StructFirstLoop(
                 [L EXCEPT !.st = r.st,
                           !.c_args = Append(@, r.val),
                           !.default2mvar[StructDecl(S)[i].name] = r.val],
                 S, given, i + 1)])
    ELSE [L EXCEPT !.exc = "elab"]

RECURSIVE StructElaborate(_, _, _, _)
StructElaborate(L, S, given, k) ==
    IF k > Len(L.to_elaborate) \/ L.exc # "none" THEN L
    ELSE Val([r \in {ElabField(L.st,
                               L.field2value[StructDecl(S)[L.to_elaborate[k]].name],
                               given[StructDecl(S)[L.to_elaborate[k]].name])} |->
             StructElaborate([L EXCEPT !.st = r.st, !.exc = r.exc], S, given, k + 1)])

(* One defaulted field in one pass of the loop.                           *)
StructDefaultFieldEager(L, S, i, last_progress) ==
    Val([v \in {mk_field_default_value(L.st, S, i, L.field2value)} |->
    Val([r \in {IF v.exc # "none" THEN v
                ELSE ElabField(v.st, L.default2mvar[StructDecl(S)[i].name], v.val)} |->
        IF r.exc = "none"
        THEN [L EXCEPT !.st = Emit(r.st, "sd_try", i, TRUE),
                       !.field2value[StructDecl(S)[i].name] = r.val,
                       !.progress = TRUE]
        ELSE [L EXCEPT !.st = Emit(r.st, "sd_try", i, FALSE),
                       !.done = FALSE,
                       !.exc = r.exc]])])

StructDefaultField(L, S, i, last_progress) ==
    Val([v \in {mk_field_default_value(L.st, S, i, L.field2value)} |->
    Val([r \in {IF v.exc # "none" THEN v
                ELSE ElabField(v.st, L.default2mvar[StructDecl(S)[i].name], v.val)} |->
        IF r.exc = "none"
        THEN [L EXCEPT !.st = Emit(r.st, "sd_try", i, TRUE),
                       !.field2value[StructDecl(S)[i].name] = r.val,
                       !.progress = TRUE]
        ELSE [L EXCEPT !.st = Emit(r.st, "sd_try", i, FALSE),
                       !.done = FALSE,
                       !.exc = IF ~last_progress THEN r.exc ELSE "none"]])])

RECURSIVE StructDefaultPass(_, _, _, _)
StructDefaultPass(L, S, i, last_progress) ==
    IF i > Len(StructDecl(S)) \/ L.exc # "none" THEN L
    ELSE IF L.field2value[StructDecl(S)[i].name] = NoTerm /\ has_default_value(S, i)
    THEN StructDefaultPass(StructDefaultField(L, S, i, last_progress),
                           S, i + 1, last_progress)
    ELSE StructDefaultPass(L, S, i + 1, last_progress)

RECURSIVE StructDefaultLoop(_, _, _, _)
StructDefaultLoop(L, S, last_progress, pass) ==
    IF L.done \/ L.exc # "none" THEN L
    ELSE Val([n \in {StructDefaultPass(
                        [L EXCEPT !.st = Emit(@, "sd_pass", pass, last_progress),
                                  !.done = TRUE, !.progress = FALSE],
                        S, 1, last_progress)} |->
             StructDefaultLoop(n, S, n.progress, pass + 1)])

Alien(S, given) ==
    \E f \in FieldNames :
       /\ given[f] # NoSurface
       /\ \A i \in DOMAIN StructDecl(S) : StructDecl(S)[i].name # f

StructCheckExpected(L, S, given, expected_type) ==
    IF L.exc # "none" THEN L
    ELSE IF Alien(S, given) THEN [L EXCEPT !.exc = "elab"]
    ELSE IF expected_type = NoTerm THEN L
    ELSE Val([q \in {is_def_eq(L.st, expected_type, T0(S))} |->
             IF q.ok THEN [L EXCEPT !.st = q.st]
             ELSE [L EXCEPT !.st = q.st, !.exc = "elab"]])

StructStart(e) ==
    [st |-> e, exc |-> "none", c_args |-> <<>>, to_elaborate |-> <<>>,
     field2value |-> NoFields, default2mvar |-> NoFields,
     done |-> FALSE, progress |-> FALSE, val |-> NoTerm]

(* visit_structure_instance for { S . f := v, ... } without a source.     *)
visit_structure_instance(e, S, given, expected_type) ==
    Val([L \in {StructDefaultLoop(
                   StructElaborate(
                       StructCheckExpected(
                           StructFirstLoop(StructStart(e), S, given, 1),
                           S, given, expected_type),
                       S, given, 1),
                   S, TRUE, 1)} |->
        [L EXCEPT !.val = IF L.exc = "none"
                          THEN [c |-> "mk", args |-> L.c_args]
                          ELSE NoTerm]])


NoGiven == [f \in FieldNames |-> NoSurface]

Givens ==
    { [f \in FieldNames |-> IF f \in D THEN v ELSE NoSurface] :
         D \in {{}, {"x"}, {"y"}, {"z"}},
         v \in {SNum(1), SAsIs(T0("tt"))} }

VisitStructureInstance ==
    /\ tc.pc = "idle"
    /\ \E S \in StructNames : \E given \in Givens :
       \E ty \in {NoTerm, T0(S), T0("nat")} :
          LET r == visit_structure_instance(Begin(elab), S, given, ty)
          IN  /\ Room(elab, Len(StructDecl(S)))
              /\ Bounded(r.st)
              /\ elab' = r.st
              /\ last' = [op |-> "visit_structure_instance", exc |-> r.exc,
                          val |-> r.val, S |-> S, given |-> given,
                          expected_type |-> ty, c_args |-> r.c_args]
              /\ arrival' = Arrive(arrival, r.st)
    /\ UNCHANGED <<saved, tc, hints, m_root>>

NextStruct ==
    \/ MkTypeMetavar
    \/ VisitStructureInstance

SpecStruct == InitVisit /\ [][NextStruct]_vars

(* The defaulted fields the literal omits.                                *)
Omitted(S, given) ==
    { i \in DOMAIN StructDecl(S) :
         given[StructDecl(S)[i].name] = NoSurface /\ has_default_value(S, i) }

(* The pass an event of the trace belongs to, and whether the pass before *)
(* it assigned a field.                                                   *)
PassOf(e, a) ==
    CHOOSE p \in EventsOf(e, "sd_pass") :
       p < a /\ \A q \in EventsOf(e, "sd_pass") : q < a => q <= p

Assigned(e, p) ==
    \E a \in EventsOf(e, "sd_try") : e.trace[a].ok /\ PassOf(e, a) = p

AfterIdlePass(e, p) ==
    \E p0 \in EventsOf(e, "sd_pass") :
       /\ e.trace[p0].m + 1 = e.trace[p].m
       /\ ~Assigned(e, p0)

(* C26: the loop over the defaulted fields of a structure instance ends   *)
(* within one pass more than the number of omitted defaulted fields (two  *)
(* more when it fails); on a normal exit every omitted defaulted field    *)
(* was assigned by exactly one successful elaboration of its default, so  *)
(* that { x := 1 } against point yields mk 1 0; and a failed default ends *)
(* the loop with its error exactly when the pass it is in follows a pass  *)
(* that assigned no field.                                                *)
C26_DefaultFields ==
    last.op = "visit_structure_instance" =>
       /\ Cardinality(EventsOf(elab, "sd_pass"))
             <= Cardinality(Omitted(last.S, last.given)) + 2
       /\ last.exc = "none" =>
             /\ Cardinality(EventsOf(elab, "sd_pass"))
                   <= Cardinality(Omitted(last.S, last.given)) + 1
             /\ \A i \in Omitted(last.S, last.given) :
                   /\ Cardinality({ a \in EventsOf(elab, "sd_try") :
                                       elab.trace[a].m = i /\ elab.trace[a].ok }) = 1
                   /\ is_assigned(elab.mctx, MvarId(last.c_args[i]))
             /\ \A a \in EventsOf(elab, "sd_try") :
                   elab.trace[a].m \in Omitted(last.S, last.given)
             /\ (/\ last.S = "point"
                 /\ last.given = [NoGiven EXCEPT !["x"] = SNum(1)]
                 /\ ~elab.m_has_errors)
                   => /\ instantiate_mvars(elab, last.val).args[1].c = "one_"
                      /\ instantiate_mvars(elab, last.val).args[2].c = "zero"
       /\ \A a \in EventsOf(elab, "sd_try") :
             ~elab.trace[a].ok =>
                (AfterIdlePass(elab, PassOf(elab, a))
                    <=> (last.exc # "none" /\ a = Len(elab.trace)))
       /\ (last.exc # "none" /\ EventsOf(elab, "sd_pass") # {})
             => /\ elab.trace[Len(elab.trace)].ev = "sd_try"
                /\ ~elab.trace[Len(elab.trace)].ok

(* { x := 1 } against point has given mk 1 0.                             *)
C26_Witness ==
    /\ last.op = "visit_structure_instance" /\ last.exc = "none"
    /\ last.S = "point"
    /\ last.given = [NoGiven EXCEPT !["x"] = SNum(1)]
    /\ instantiate_mvars(elab, last.val).args[1].c = "one_"
    /\ instantiate_mvars(elab, last.val).args[2].c = "zero"
    /\ Cardinality(EventsOf(elab, "sd_pass")) = 1

(***************************************************************************)
(* C27: a registration that is rejected leaves the hint table and the     *)
(* map from declaration names to priorities as they were before the call. *)
(***************************************************************************)
C27_RegisterAllOrNothing ==
    [][ (last'.op = "register_hint" /\ last'.exc # "none") =>
          /\ hints'.m_hints = hints.m_hints
          /\ hints'.m_decl_names_to_prio = hints.m_decl_names_to_prio ]_vars

(***************************************************************************)
(* The stack of inaccessible terms.  Patterns push pairs on it, the       *)
(* unifier fixes (or half fixes) their metavariables, and                 *)
(* check_inaccessible is run against a stack saved earlier.               *)
(***************************************************************************)
PushInaccessible ==
    /\ tc.pc = "idle" /\ Room(elab, 1)
    /\ elab.m_in_pattern
    /\ \E a \in {SAsIs(T0("n0")), SAsIs(T0("n1"))} :
          LET r == visit_inaccessible(Begin(elab), a, T0("nat"))
          IN  /\ Bounded(r.st)
              /\ elab' = r.st
              /\ last' = [op |-> "visit_inaccessible", exc |-> r.exc]
              /\ arrival' = Arrive(arrival, r.st)
    /\ UNCHANGED <<saved, tc, hints, m_root>>

FixInaccessible ==
    /\ tc.pc = "idle"
    /\ \E k \in DOMAIN elab.m_inaccessible_stack :
       \E t \in {T0("n0"), T0("n1")}
                \cup { T1("succ", MVar(m)) : m \in TypeMvars(elab) } :
          LET q == is_def_eq(Begin(elab), MVar(elab.m_inaccessible_stack[k].m), t)
          IN  /\ q.ok
              /\ elab' = q.st
              /\ last' = [op |-> "is_def_eq", exc |-> "none"]
              /\ arrival' = Arrive(arrival, q.st)
    /\ UNCHANGED <<saved, tc, hints, m_root>>

CheckInaccessible ==
    /\ tc.pc = "idle"
    /\ \E n \in 0..Len(elab.m_inaccessible_stack) :
          LET old == SubSeq(elab.m_inaccessible_stack,
                            Len(elab.m_inaccessible_stack) - n + 1,
                            Len(elab.m_inaccessible_stack))
              r   == check_inaccessible(Begin(elab), old)
          IN  /\ elab' = r.st
              /\ last' = [op |-> "check_inaccessible", exc |-> r.exc,
                          old_stack |-> old]
              /\ arrival' = Arrive(arrival, r.st)
    /\ UNCHANGED <<saved, tc, hints, m_root>>

NextInacc ==
    \/ MkTypeMetavar
    \/ PushInaccessible
    \/ FixInaccessible
    \/ CheckInaccessible
    \/ VisitEquations

SpecInacc == InitVisit /\ [][NextInacc]_vars

(* The pairs pushed on stack since old, oldest first.                     *)
PushedSince(stack, old) ==
    [j \in 1..(Len(stack) - Len(old)) |-> stack[Len(stack) - Len(old) + 1 - j]]

(* The checks of a run of check_inaccessible, in the order they happened. *)
Checks(e) ==
    SelectSeq(e.trace, LAMBDA ev : ev.ev \in {"inacc_ok", "inaccessible"})

Fixed(e, p) ==
    /\ is_assigned(e.mctx, p.m)
    /\ ~has_expr_metavar(instantiate_mvars(e, MVar(p.m)))
    /\ ctx_is_def_eq(e.mctx, instantiate_mvars(e, MVar(p.m)), p.val).ok

(* C28: visit_equations leaves the stack of inaccessible terms as it      *)
(* found it, whether it returns or raises; check_inaccessible leaves      *)
(* exactly the saved stack, validates the pairs pushed since then oldest  *)
(* first, stops with an error at the first pair whose metavariable is     *)
(* unassigned, not fully instantiated or different from the given term,   *)
(* and returns normally exactly when every pair passed.                   *)
C28_InaccessibleScope ==
    [][ /\ last'.op = "visit_equations"
            => elab'.m_inaccessible_stack = elab.m_inaccessible_stack
        /\ last'.op = "check_inaccessible" =>
            LET pushed == PushedSince(elab.m_inaccessible_stack, last'.old_stack)
                checks == Checks(elab')
            IN  /\ elab'.m_inaccessible_stack = last'.old_stack
                /\ Len(checks) <= Len(pushed)
                /\ \A j \in DOMAIN checks :
                      /\ checks[j].m = pushed[j].m
                      /\ checks[j].ok <=> Fixed(elab', pushed[j])
                      /\ ~checks[j].ok => j = Len(checks)
                /\ last'.exc = "none" <=>
                      /\ Len(checks) = Len(pushed)
                      /\ \A j \in DOMAIN checks : checks[j].ok
                /\ last'.exc # "none" => ~checks[Len(checks)].ok ]_vars

(* Two pairs were checked, the older one first, and the newer one failed. *)
C28_Witness ==
    /\ last.op = "check_inaccessible" /\ last.exc # "none"
    /\ Len(Checks(elab)) = 2
    /\ Checks(elab)[1].ok /\ ~Checks(elab)[2].ok
    /\ Checks(elab)[1].m # Checks(elab)[2].m
    /\ elab.m_inaccessible_stack = last.old_stack

(***************************************************************************)
(* Numerals.  Value is what a term denotes under zero = 0, one = 1,       *)
(* bit0 x = 2 * x and bit1 x = 2 * x + 1 (-1 for any other term), and     *)
(* Binary says that the term is zero, one, or a chain of bit0 and bit1    *)
(* that ends in one.                                                      *)
(***************************************************************************)
MaxNum == 11

RECURSIVE Value(_)
Value(t) ==
    CASE t.c = "zero" -> 0
      [] t.c = "one_" -> 1
      [] t.c = "bit0" -> IF Value(t.args[3]) < 0 THEN 0 - 1
                         ELSE 2 * Value(t.args[3])
      [] t.c = "bit1" -> IF Value(t.args[4]) < 0 THEN 0 - 1
                         ELSE 2 * Value(t.args[4]) + 1
      [] OTHER        -> 0 - 1

RECURSIVE Chain(_)
Chain(t) ==
    CASE t.c = "one_" -> TRUE
      [] t.c = "bit0" -> Chain(t.args[3])
      [] t.c = "bit1" -> Chain(t.args[4])
      [] OTHER        -> FALSE

Binary(t) == t.c = "zero" \/ Chain(t)

VisitNumeral ==
    /\ tc.pc = "idle" /\ Room(elab, 3)
    /\ \E v \in (0 - 2)..MaxNum :
       \E ty \in {NoTerm, T0("nat"), T0("int"), T0("p0"), T0("n0")}
                 \cup { MVar(m) : m \in TypeMvars(elab) } :
          LET r == visit_prenum(Begin(elab), v, ty)
          IN  /\ Bounded(r.st)
              /\ elab' = r.st
              /\ last' = [op |-> "visit_prenum", exc |-> r.exc, val |-> r.val,
                          v |-> v, expected_type |-> ty]
              /\ arrival' = Arrive(arrival, r.st)
    /\ UNCHANGED <<saved, tc, hints, m_root>>

NextNum ==
    \/ MkTypeMetavar
    \/ VisitNumeral

SpecNum == InitVisit /\ [][NextNum]_vars

(* C29: a numeral v >= 0 that visit_prenum elaborates is zero for 0, one  *)
(* for 1 and otherwise the chain of bit0 and bit1 of the binary digits of *)
(* v ending in one, so that it denotes v; a negative v gives no numeral:  *)
(* the call raises, or, when errors are recovered, the error is reported  *)
(* and the result is the sorry placeholder.                               *)
C29_NumeralEncoding ==
    [][ last'.op = "visit_prenum" =>
          /\ (last'.v >= 0 /\ last'.exc = "none") =>
                /\ Binary(last'.val)
                /\ Value(last'.val) = last'.v
                /\ last'.v = 0 <=> last'.val.c = "zero"
                /\ last'.v = 1 <=> last'.val.c = "one_"
          /\ last'.v < 0 =>
                \/ last'.exc # "none"
                \/ /\ elab.m_recover_from_errors
                   /\ elab'.m_has_errors
                   /\ elab'.reported = elab.reported + 1
                   /\ last'.val.c = "sorry" ]_vars

(* C29 as stated: a negative v yields an error instead of a term.         *)
C29_NegativeRaises ==
    [][ last'.op = "visit_prenum" =>
          /\ (last'.v >= 0 /\ last'.exc = "none") =>
                /\ Binary(last'.val)
                /\ Value(last'.val) = last'.v
          /\ last'.v < 0 =>
                /\ last'.exc # "none"
                /\ last'.val = NoTerm ]_vars

(* The numeral 11 was elaborated: bit1 (bit1 (bit0 one)).                 *)
C29_Witness ==
    /\ last.op = "visit_prenum" /\ last.exc = "none"
    /\ last.v = MaxNum
    /\ last.val.c = "bit1"
    /\ Value(last.val) = MaxNum

(***************************************************************************)
(* C30: unification_hint_cmp gives 0 for two hints only when they have    *)
(* the same sides and the same list of constraints, so that two hints     *)
(* registered under one key whose constraint lists differ, one being a    *)
(* proper prefix of the other included, are both in the queue of the key. *)
(***************************************************************************)
C30_CmpConsistentWithEquality ==
    /\ \A a, b \in DOMAIN hints.log :
          unification_hint_cmp_eq(hints.log[a].hint, hints.log[b].hint)
             => hints.log[a].hint = hints.log[b].hint
    /\ \A a, b \in DOMAIN hints.log :
          (/\ hints.log[a].key = hints.log[b].key
           /\ hints.log[a].hint # hints.log[b].hint)
             => \A n \in {a, b} :
                   \E x \in find(hints.m_hints, hints.log[a].key).elems :
                      x.v = hints.log[n].hint

====
